---- MODULE Spec2Model ----
(***************************************************************************)
(* Air Traffic Control: a TUI that manages coding-agent sessions, each in  *)
(* its own git worktree and its own tmux session.                          *)
(*                                                                         *)
(* Three state machines share this module:                                 *)
(*   SpecTerm  one terminal.Terminal handle, its pollLoop goroutine and    *)
(*             the goroutine that calls its methods, over one tmux pane;   *)
(*   SpecSvc   session.Service over the sessions table and the worktrees;  *)
(*   SpecTui   the tui.Model reducer, its command goroutines, the handle   *)
(*             map and the tmux sessions on the socket.                    *)
(***************************************************************************)
EXTENDS Integers, Sequences, FiniteSets, TLC

(***************************************************************************)
(* Bounds of the model.                                                    *)
(***************************************************************************)
MaxHist == 2
MaxDeaths == 1
MaxIds == 2
MaxInFlight == 1
MaxSegs == 3
MaxRows == 2
MaxCmds == 2

(* terminalPaneDimensions never reports a height below 5; the mouse wheel
   scrolls by 3 lines, PgUp and PgDn by half the pane's height. *)
MinTermHeight == 5
WheelLines == 3

Screens == {"screenA", "screenB"}
NoOutput == ""
Heights == {MinTermHeight, MinTermHeight + 1}
ScrollSteps == {WheelLines} \cup {h \div 2 : h \in Heights}

VARIABLES
  (* the tmux pane behind the handle *)
  muxExists,      \* a tmux session of this name is on the socket
  childAlive,     \* the pane's process runs (pane_dead = 0)
  deaths,         \* how many times the pane's process has died
  screen,         \* the visible pane content
  histSize,       \* tmux's history_size of the pane
  (* terminal.Terminal *)
  handle,         \* "none", "live" (in use by its caller), "released"
  mu,             \* holder of t.mu: "free", "poll", "caller"
  closed,         \* t.closed
  doneCloses,     \* number of close(t.done) executed
  lastCapture,    \* t.lastCapture
  visHeight,      \* t.visHeight
  scrollLines,    \* t.scrollLines
  cachedHistSize, \* t.cachedHistSize
  paneDead,       \* t.paneDead
  (* the pollLoop goroutine *)
  pollPc,
  pollOutput,     \* local output
  pollHist,       \* local histSize
  pollChanged,    \* local changed
  pollWasDead,    \* local wasDead
  pollObs,        \* which death the last isPaneDead() reported
  period,         \* the ticker's period, in ms
  (* the goroutine calling the handle's methods *)
  callPc,
  callArg,
  (* observations *)
  exitedFor,      \* death -> number of TerminalExitedMsg sent for it
  attached,       \* the handle was made by Attach, not by New
  killCalls,      \* number of kill-session commands Close has run
  strayPolls,     \* session name -> the handles whose pollLoop runs and that
                  \* neither the map m.terminals nor a command holds
  sel,            \* the Model's window size and mouse selection
  mouse,          \* where the last press fell, and whether the last mouse
                  \* release called copySelectionToClipboard, modulo 2
  (* the sessions table, git, and session.Service *)
  rows,           \* the rows of table sessions
  nextId,         \* the next fresh uuid
  worktrees,      \* the names whose worktree directory exists
  branches,       \* the git branches
  touchSnap,      \* the row TouchSession has read and not yet written back
  lastCreate,     \* what the last CreateSession call did
  (* the program: tui.Model, its commands, and the tmux socket *)
  m,              \* the Model the reducer owns
  tmuxSessions,   \* session name -> "none", "alive", or "dead" (pane dead)
  cmds,           \* the command goroutines that are running
  inbox,          \* the messages sent to the program and not yet handled
  quit,           \* tea.Quit was returned
  sendKeysCalls,  \* the number of Terminal.SendKeys calls made, modulo 2
  (* one call of a function that reads no state *)
  call,           \* the function called and its arguments
  ret             \* what the call returned, once it has returned

termVars == <<muxExists, childAlive, deaths, screen, histSize, handle, mu,
              closed, doneCloses, lastCapture, visHeight, scrollLines,
              cachedHistSize, paneDead, pollPc, pollOutput, pollHist,
              pollChanged, pollWasDead, pollObs, period, callPc, callArg,
              exitedFor, attached, killCalls, strayPolls, sel, mouse>>

svcVars == <<rows, nextId, worktrees, branches, touchSnap, lastCreate>>

tuiVars == <<m, tmuxSessions, cmds, inbox, quit>>

inputVars == <<sendKeysCalls, call, ret>>

vars == <<termVars, svcVars, tuiVars, inputVars>>

(* What the steps of one state machine leave alone. *)
notTerm == <<svcVars, tuiVars, inputVars>>
notSvc == <<termVars, tuiVars, inputVars>>
notTui == <<termVars, inputVars>>

muxVars == <<muxExists, childAlive, deaths, screen, histSize>>
fieldVars == <<closed, doneCloses, lastCapture, visHeight, scrollLines,
               cachedHistSize, paneDead>>
pollLocals == <<pollOutput, pollHist, pollChanged, pollWasDead, pollObs>>
obsVars == <<exitedFor, attached, killCalls, strayPolls, sel, mouse>>

(***************************************************************************)
(* Helpers.                                                                *)
(***************************************************************************)
Min(a, b) == IF a < b THEN a ELSE b
Max(a, b) == IF a > b THEN a ELSE b

(* The sidebar's width in columns.  The terminal pane takes the rest of the
   window but one column, and never less than 10 columns and 5 rows. *)
sidebarWidth == 36
MinTermWidth == 10
termWidth(s) == Max(s.windowWidth - sidebarWidth - 1, MinTermWidth)
termHeight(s) == Max(s.windowHeight, MinTermHeight)

(* The Model before any WindowSizeMsg and any mouse event. *)
NoSelection ==
  [windowWidth |-> 0, windowHeight |-> 0,
   selecting |-> FALSE, hasSelection |-> FALSE,
   selStartCol |-> 0, selStartRow |-> 0, selEndCol |-> 0, selEndRow |-> 0]
NoMouse == [pressX |-> 0, pressY |-> 0, copies |-> 0]


(***************************************************************************)
(* The tmux pane: the child's output and death.                            *)
(***************************************************************************)
MuxOutput ==
  /\ muxExists /\ childAlive
  /\ \E s \in Screens, h \in histSize..MaxHist :
        /\ <<s, h>> # <<screen, histSize>>
        /\ screen' = s
        /\ histSize' = h
  /\ UNCHANGED notTerm
  /\ UNCHANGED <<muxExists, childAlive, deaths, handle, mu, fieldVars,
                 pollPc, pollLocals, period, callPc, callArg, obsVars>>

MuxClearHistory ==
  /\ muxExists /\ childAlive /\ histSize > 0
  /\ histSize' = 0
  /\ UNCHANGED notTerm
  /\ UNCHANGED <<muxExists, childAlive, deaths, screen, handle, mu, fieldVars,
                 pollPc, pollLocals, period, callPc, callArg, obsVars>>

ChildExit ==
  /\ muxExists /\ childAlive /\ deaths < MaxDeaths
  /\ childAlive' = FALSE
  /\ deaths' = deaths + 1
  /\ UNCHANGED notTerm
  /\ UNCHANGED <<muxExists, screen, histSize, handle, mu, fieldVars,
                 pollPc, pollLocals, period, callPc, callArg, obsVars>>

(***************************************************************************)
(* The handle's queries of tmux.  The error of the tmux call is dropped:   *)
(* a failed call gives the empty capture, history size 0, "not dead".      *)
(***************************************************************************)
capturePaneVisible(ok) == IF muxExists /\ ok THEN screen ELSE NoOutput
historySize(ok) == IF muxExists /\ ok THEN histSize ELSE 0
isPaneDead(ok) == muxExists /\ ok /\ ~childAlive

(***************************************************************************)
(* newTerminal, New, Attach.                                               *)
(***************************************************************************)
newTerminal(height) ==
  /\ handle' = "live"
  /\ mu' = "free"
  /\ closed' = FALSE
  /\ doneCloses' = 0
  /\ lastCapture' = NoOutput
  /\ visHeight' = height
  /\ scrollLines' = 0
  /\ cachedHistSize' = 0
  /\ paneDead' = FALSE
  /\ pollPc' = "select"
  /\ period' = 50

New ==
  /\ handle = "none" /\ ~muxExists
  /\ \E h \in Heights, s \in Screens :
        /\ newTerminal(h)
        /\ screen' = s
  /\ muxExists' = TRUE
  /\ childAlive' = TRUE
  /\ histSize' = 0
  /\ attached' = FALSE
  /\ UNCHANGED notTerm
  /\ UNCHANGED <<deaths, pollLocals, callPc, callArg, exitedFor, killCalls,
                 strayPolls, sel, mouse>>

(* Attach: resize-window, newTerminal (the poll goroutine runs from here
   on), then isPaneDead() and, when dead, t.paneDead = true without t.mu. *)
AttachStart ==
  /\ handle = "none" /\ muxExists
  /\ \E h \in Heights : newTerminal(h)
  /\ callPc' = "attachCheck"
  /\ attached' = TRUE
  /\ UNCHANGED notTerm
  /\ UNCHANGED <<muxVars, pollLocals, callArg, exitedFor, killCalls,
                 strayPolls, sel, mouse>>

AttachCheck ==
  /\ callPc = "attachCheck"
  /\ \E ok \in BOOLEAN :
        callPc' = IF isPaneDead(ok) THEN "attachSet" ELSE "idle"
  /\ UNCHANGED notTerm
  /\ UNCHANGED <<muxVars, handle, mu, fieldVars, pollPc, pollLocals, period,
                 callArg, obsVars>>

AttachSet ==
  /\ callPc = "attachSet"
  /\ paneDead' = TRUE
  /\ callPc' = "idle"
  /\ UNCHANGED notTerm
  /\ UNCHANGED <<muxVars, handle, mu, closed, doneCloses, lastCapture,
                 visHeight, scrollLines, cachedHistSize, pollPc, pollLocals,
                 period, callArg, obsVars>>

(***************************************************************************)
(* pollLoop.                                                               *)
(***************************************************************************)
(* select: case <-ticker.C *)
PollTick ==
  /\ pollPc = "select"
  /\ pollPc' = "capture"
  /\ UNCHANGED notTerm
  /\ UNCHANGED <<muxVars, handle, mu, fieldVars, pollLocals, period, callPc,
                 callArg, obsVars>>

(* select: case <-t.done *)
PollDone ==
  /\ pollPc = "select" /\ doneCloses > 0
  /\ pollPc' = "exit"
  /\ UNCHANGED notTerm
  /\ UNCHANGED <<muxVars, handle, mu, fieldVars, pollLocals, period, callPc,
                 callArg, obsVars>>

PollCapture ==
  /\ pollPc = "capture"
  /\ \E ok1, ok2 \in BOOLEAN :
        /\ pollOutput' = capturePaneVisible(ok1)
        /\ pollHist' = historySize(ok2)
  /\ pollPc' = "lock1"
  /\ UNCHANGED notTerm
  /\ UNCHANGED <<muxVars, handle, mu, fieldVars, pollChanged, pollWasDead,
                 pollObs, period, callPc, callArg, obsVars>>

PollLock1 ==
  /\ pollPc = "lock1" /\ mu = "free"
  /\ mu' = "poll"
  /\ pollPc' = "update"
  /\ UNCHANGED notTerm
  /\ UNCHANGED <<muxVars, handle, fieldVars, pollLocals, period, callPc,
                 callArg, obsVars>>

(* A tick that stores the capture without comparing it. *)
PollStore ==
  /\ pollPc = "update"
  /\ pollChanged' = FALSE
  /\ lastCapture' = pollOutput
  /\ cachedHistSize' = pollHist
  /\ mu' = "free"
  /\ pollPc' = "sendOutput"
  /\ pollOutput' = NoOutput
  /\ pollHist' = 0
  /\ UNCHANGED notTerm
  /\ UNCHANGED <<muxVars, handle, closed, doneCloses, visHeight, scrollLines,
                 paneDead, pollWasDead, pollObs, period, callPc, callArg,
                 obsVars>>

PollUpdate ==
  /\ pollPc = "update"
  /\ pollChanged' = (pollOutput # lastCapture)
  /\ lastCapture' = pollOutput
  /\ cachedHistSize' = pollHist
  /\ mu' = "free"
  /\ pollPc' = "sendOutput"
  /\ pollOutput' = NoOutput
  /\ pollHist' = 0
  /\ UNCHANGED notTerm
  /\ UNCHANGED <<muxVars, handle, closed, doneCloses, visHeight, scrollLines,
                 paneDead, pollWasDead, pollObs, period, callPc, callArg,
                 obsVars>>

PollSendOutput ==
  /\ pollPc = "sendOutput"
  /\ pollChanged' = FALSE
  /\ pollPc' = "checkDead"
  /\ UNCHANGED notTerm
  /\ UNCHANGED <<muxVars, handle, mu, fieldVars, pollOutput, pollHist,
                 pollWasDead, pollObs, period, callPc, callArg, obsVars>>

PollCheckDead ==
  /\ pollPc = "checkDead"
  /\ \E ok \in BOOLEAN :
        IF isPaneDead(ok)
        THEN /\ pollObs' = deaths
             /\ pollPc' = "lock2"
        ELSE /\ pollPc' = "select"
             /\ UNCHANGED pollObs
  /\ UNCHANGED notTerm
  /\ UNCHANGED <<muxVars, handle, mu, fieldVars, pollOutput, pollHist,
                 pollChanged, pollWasDead, period, callPc, callArg, obsVars>>

PollLock2 ==
  /\ pollPc = "lock2" /\ mu = "free"
  /\ mu' = "poll"
  /\ pollPc' = "markDead"
  /\ UNCHANGED notTerm
  /\ UNCHANGED <<muxVars, handle, fieldVars, pollLocals, period, callPc,
                 callArg, obsVars>>

PollMarkDead ==
  /\ pollPc = "markDead"
  /\ pollWasDead' = paneDead
  /\ paneDead' = TRUE
  /\ mu' = "free"
  /\ pollPc' = "sendExited"
  /\ UNCHANGED notTerm
  /\ UNCHANGED <<muxVars, handle, closed, doneCloses, lastCapture, visHeight,
                 scrollLines, cachedHistSize, pollOutput, pollHist,
                 pollChanged, pollObs, period, callPc, callArg, obsVars>>

PollSendExited ==
  /\ pollPc = "sendExited"
  /\ IF ~pollWasDead
     THEN exitedFor' = [exitedFor EXCEPT ![pollObs] = Min(@ + 1, 2)]
     ELSE UNCHANGED exitedFor
  /\ period' = 500
  /\ pollWasDead' = FALSE
  /\ pollObs' = 0
  /\ pollPc' = "select"
  /\ UNCHANGED notTerm
  /\ UNCHANGED <<muxVars, handle, mu, fieldVars, pollOutput, pollHist,
                 pollChanged, callPc, callArg, attached, killCalls,
                 strayPolls, sel, mouse>>

PollStep ==
  \/ PollTick \/ PollDone \/ PollCapture \/ PollLock1 \/ PollUpdate
  \/ PollSendOutput \/ PollCheckDead \/ PollLock2 \/ PollMarkDead
  \/ PollSendExited

(***************************************************************************)
(* The methods of Terminal, run by the goroutine that uses the handle (the *)
(* reducer, or an activation command).  Lock() is one step, the critical   *)
(* section up to Unlock() the next.                                        *)
(***************************************************************************)
CallLock(op, arg) ==
  /\ handle = "live" /\ callPc = "idle" /\ mu = "free"
  /\ mu' = "caller"
  /\ callPc' = op
  /\ callArg' = arg
  /\ UNCHANGED notTerm
  /\ UNCHANGED <<muxVars, handle, fieldVars, pollPc, pollLocals, period,
                 obsVars>>

ScrollUpLock == \E n \in ScrollSteps : CallLock("ScrollUp", n)
ScrollDownLock == \E n \in ScrollSteps : CallLock("ScrollDown", n)
IsRunningLock == CallLock("IsRunning", 0)
ResizeLock == \E h \in Heights : CallLock("Resize", h)
RenderLock == CallLock("Render", 0)
CloseLock == CallLock("Close", 0)
DetachLock == CallLock("Detach", 0)

ScrollUp ==
  /\ callPc = "ScrollUp"
  /\ scrollLines' = IF scrollLines + callArg > cachedHistSize
                    THEN cachedHistSize
                    ELSE scrollLines + callArg
  /\ mu' = "free"
  /\ callPc' = "idle"
  /\ callArg' = 0
  /\ UNCHANGED notTerm
  /\ UNCHANGED <<muxVars, handle, closed, doneCloses, lastCapture, visHeight,
                 cachedHistSize, paneDead, pollPc, pollLocals, period, obsVars>>

ScrollDown ==
  /\ callPc = "ScrollDown"
  /\ scrollLines' = IF scrollLines - callArg < 0 THEN 0
                    ELSE scrollLines - callArg
  /\ mu' = "free"
  /\ callPc' = "idle"
  /\ callArg' = 0
  /\ UNCHANGED notTerm
  /\ UNCHANGED <<muxVars, handle, closed, doneCloses, lastCapture, visHeight,
                 cachedHistSize, paneDead, pollPc, pollLocals, period, obsVars>>

(* IsRunning; its callers respawn the pane only when it returned false. *)
IsRunning ==
  /\ callPc = "IsRunning"
  /\ mu' = "free"
  /\ callPc' = IF paneDead THEN "notRunning" ELSE "idle"
  /\ UNCHANGED notTerm
  /\ UNCHANGED <<muxVars, handle, fieldVars, pollPc, pollLocals, period,
                 callArg, obsVars>>

(* The key was not Enter: no respawn. *)
NoRespawn ==
  /\ callPc = "notRunning"
  /\ callPc' = "idle"
  /\ UNCHANGED notTerm
  /\ UNCHANGED <<muxVars, handle, mu, fieldVars, pollPc, pollLocals, period,
                 callArg, obsVars>>

(* Respawn: respawn-pane -k, and on success t.paneDead = false under t.mu. *)
RespawnCmd ==
  /\ callPc = "notRunning"
  /\ \E ok \in BOOLEAN :
        IF muxExists /\ ok
        THEN /\ childAlive' = TRUE
             /\ callPc' = "respawnLock"
        ELSE /\ callPc' = "idle"
             /\ UNCHANGED childAlive
  /\ UNCHANGED notTerm
  /\ UNCHANGED <<muxExists, deaths, screen, histSize, handle, mu, fieldVars,
                 pollPc, pollLocals, period, callArg, obsVars>>

RespawnLock ==
  /\ callPc = "respawnLock" /\ mu = "free"
  /\ mu' = "caller"
  /\ callPc' = "respawnSet"
  /\ UNCHANGED notTerm
  /\ UNCHANGED <<muxVars, handle, fieldVars, pollPc, pollLocals, period,
                 callArg, obsVars>>

RespawnSet ==
  /\ callPc = "respawnSet"
  /\ paneDead' = FALSE
  /\ mu' = "free"
  /\ callPc' = "idle"
  /\ UNCHANGED notTerm
  /\ UNCHANGED <<muxVars, handle, closed, doneCloses, lastCapture, visHeight,
                 scrollLines, cachedHistSize, pollPc, pollLocals, period,
                 callArg, obsVars>>

Resize ==
  /\ callPc = "Resize"
  /\ visHeight' = callArg
  /\ mu' = "free"
  /\ callPc' = "idle"
  /\ callArg' = 0
  /\ UNCHANGED notTerm
  /\ UNCHANGED <<muxVars, handle, closed, doneCloses, lastCapture,
                 scrollLines, cachedHistSize, paneDead, pollPc, pollLocals,
                 period, obsVars>>

(* Render: scrollLines and lastCapture are read under t.mu; in scroll mode
   t.visHeight is then read after Unlock(). *)
Render ==
  /\ callPc = "Render"
  /\ mu' = "free"
  /\ callPc' = IF scrollLines = 0 THEN "idle" ELSE "renderRange"
  /\ UNCHANGED notTerm
  /\ UNCHANGED <<muxVars, handle, fieldVars, pollPc, pollLocals, period,
                 callArg, obsVars>>

RenderRange ==
  /\ callPc = "renderRange"
  /\ callPc' = "idle"
  /\ UNCHANGED notTerm
  /\ UNCHANGED <<muxVars, handle, mu, fieldVars, pollPc, pollLocals, period,
                 callArg, obsVars>>

(* A stopPollLoop that closes t.done whatever t.closed says. *)
stopPollLoopUnguarded ==
  /\ closed' = TRUE
  /\ doneCloses' = Min(doneCloses + 1, 2)

(* stopPollLoop, called with t.mu held. *)
stopPollLoop ==
  /\ closed' = TRUE
  /\ doneCloses' = IF closed THEN doneCloses ELSE doneCloses + 1

(* Close: stopPollLoop and kill-session under t.mu; the handle is then
   dropped from the map. *)
Close ==
  /\ callPc = "Close"
  /\ stopPollLoop
  /\ IF closed
     THEN UNCHANGED <<muxExists, childAlive, killCalls>>
     ELSE /\ muxExists' = FALSE
          /\ childAlive' = FALSE
          /\ killCalls' = Min(killCalls + 1, 2)
  /\ mu' = "free"
  /\ callPc' = "idle"
  /\ handle' = "released"
  /\ UNCHANGED notTerm
  /\ UNCHANGED <<deaths, screen, histSize, lastCapture, visHeight,
                 scrollLines, cachedHistSize, paneDead, pollPc, pollLocals,
                 period, callArg, exitedFor, attached, strayPolls, sel, mouse>>

Detach ==
  /\ callPc = "Detach"
  /\ stopPollLoop
  /\ mu' = "free"
  /\ callPc' = "idle"
  /\ handle' = "released"
  /\ UNCHANGED notTerm
  /\ UNCHANGED <<muxVars, lastCapture, visHeight, scrollLines,
                 cachedHistSize, paneDead, pollPc, pollLocals, period,
                 callArg, obsVars>>

CallStep ==
  \/ ScrollUpLock \/ ScrollUp \/ ScrollDownLock \/ ScrollDown
  \/ IsRunningLock \/ IsRunning \/ NoRespawn
  \/ RespawnCmd \/ RespawnLock \/ RespawnSet
  \/ ResizeLock \/ Resize \/ RenderLock \/ Render \/ RenderRange
  \/ CloseLock \/ Close \/ DetachLock \/ Detach

(***************************************************************************)
(* The sessions table (database/queries.go) and git's worktrees.           *)
(***************************************************************************)
Names == {"feat-a", "feat-b"}
NoRow == [id |-> 0]

NewRowOnMain(id, name) ==
  [id |-> id, name |-> name, branch |-> "main", status |-> "active",
   archivedAt |-> FALSE, lastAccessed |-> FALSE]

NewRow(id, name) ==
  [id |-> id, name |-> name, branch |-> name, status |-> "active",
   archivedAt |-> FALSE, lastAccessed |-> FALSE]

(* SELECT ... WHERE name = ? and WHERE branch_name = ? *)
RowsByName(name) == {r \in rows : r.name = name}
RowsByBranch(name) == {r \in rows : r.branch = name}
GetSessionByName(name, ok) ==
  IF ok /\ RowsByName(name) # {} THEN CHOOSE r \in RowsByName(name) : TRUE
  ELSE NoRow

(* INSERT: id is the primary key, name is UNIQUE. *)
InsertAllowed(row) ==
  /\ \A r \in rows : r.id # row.id
  /\ RowsByName(row.name) = {}

(* UPDATE sessions SET ... WHERE id = ? *)
UpdateWhereId(id, f(_)) == {IF r.id = id THEN f(r) ELSE r : r \in rows}

(***************************************************************************)
(* worktree.ValidateBranchName.  A name is the string of its runes; the    *)
(* names that create is called with are the two session names and three    *)
(* strings the grammar rejects.                                            *)
(***************************************************************************)
InvalidNames == {"", "-x", "a b", "a..b"}
CreateNames == Names \cup InvalidNames

Runes ==
  "feat-a" :> <<"f", "e", "a", "t", "-", "a">>
  @@ "feat-b" :> <<"f", "e", "a", "t", "-", "b">>
  @@ "" :> <<>>
  @@ "-x" :> <<"-", "x">>
  @@ "a b" :> <<"a", " ", "b">>
  @@ "a..b" :> <<"a", ".", ".", "b">>

Letters ==
  {"a", "b", "c", "d", "e", "f", "g", "h", "i", "j", "k", "l", "m", "n", "o",
   "p", "q", "r", "s", "t", "u", "v", "w", "x", "y", "z",
   "A", "B", "C", "D", "E", "F", "G", "H", "I", "J", "K", "L", "M", "N", "O",
   "P", "Q", "R", "S", "T", "U", "V", "W", "X", "Y", "Z"}
Digits == {"0", "1", "2", "3", "4", "5", "6", "7", "8", "9"}

isValidBranchChar(r) == r \in Letters \cup Digits \cup {"-", "_", "/", "."}

(* TRUE when ValidateBranchName returns nil. *)
ValidateBranchName(name) ==
  LET rs == Runes[name] IN
  /\ rs # <<>>
  /\ rs[1] # "-"
  /\ rs[1] # "."
  /\ ~\E i \in 1..(Len(rs) - 1) : rs[i] = "." /\ rs[i + 1] = "."
  /\ ~\E i \in 1..Len(rs) : rs[i] = " "
  /\ \A i \in 1..Len(rs) : isValidBranchChar(rs[i])

(* git worktree add [-b branch] path base *)
GitWorktreeAddPossible(name, useExisting) ==
  /\ name \notin worktrees
  /\ IF useExisting THEN name \in branches ELSE name \notin branches

(***************************************************************************)
(* Service.CreateSession.  env gives the outcome of each call that can     *)
(* fail in the world outside: the lookup, git, the config file, the setup  *)
(* commands, the insert, and the worktree removal of the rollback.         *)
(***************************************************************************)
CreateEnvs ==
  [lookupOk : BOOLEAN, branchLookupOk : BOOLEAN, gitOk : BOOLEAN,
   configOk : BOOLEAN, setup : {"none", "ok", "fail"}, insertOk : BOOLEAN,
   removeOk : BOOLEAN]

(* The step at which CreateSession returns its error, or "ok". *)
CreateOutcome(name, useExisting, id, env) ==
  IF ~ValidateBranchName(name) THEN "invalid"
  ELSE IF GetSessionByName(name, env.lookupOk) # NoRow THEN "exists"
  ELSE IF useExisting /\ ~env.branchLookupOk THEN "branchLookup"
  ELSE IF useExisting /\ RowsByBranch(name) # {} THEN "branchTaken"
  ELSE IF ~(env.gitOk /\ GitWorktreeAddPossible(name, useExisting))
       THEN "worktree"
  ELSE IF ~env.configOk THEN "config"
  ELSE IF env.setup = "fail" THEN "setup"
  ELSE IF ~(env.insertOk /\ InsertAllowed(NewRow(id, name))) THEN "insert"
  ELSE "ok"

(* The failures after which cleanupWorktree() is called. *)
RollbackStagesNoInsert == {"config", "setup"}
RollbackStagesNoSetup == {"config", "insert"}
RollbackStages == {"config", "setup", "insert"}

(* The outcomes in which CreateWorktree had succeeded. *)
WorktreeStagesWithFailed == {"worktree", "config", "setup", "insert", "ok"}
WorktreeStages == {"config", "setup", "insert", "ok"}

CreateSession(name, useExisting, env) ==
  LET out == CreateOutcome(name, useExisting, nextId, env)
      made == out \in WorktreeStages
      rolled == out \in RollbackStages
  IN
  /\ nextId <= MaxIds
  /\ nextId' = IF made THEN nextId + 1 ELSE nextId
  /\ branches' = IF made THEN branches \cup {name} ELSE branches
  /\ worktrees' = IF made /\ ~(rolled /\ env.removeOk)
                  THEN worktrees \cup {name}
                  ELSE worktrees
  /\ rows' = IF out = "ok" THEN rows \cup {NewRow(nextId, name)} ELSE rows
  /\ lastCreate' = [name |-> name, failedAt |-> out, made |-> made,
                    cleanup |-> rolled, inserted |-> (rows' # rows),
                    changed |-> (<<rows, worktrees, branches>>'
                                    # <<rows, worktrees, branches>>)]
  /\ UNCHANGED touchSnap

(***************************************************************************)
(* Service.DeleteSession: the worktree first, then the row.                *)
(***************************************************************************)
DeleteEnvs == [lookupOk : BOOLEAN, removeOk : BOOLEAN, deleteOk : BOOLEAN]

DeleteOutcome(name, env) ==
  IF GetSessionByName(name, env.lookupOk) = NoRow THEN "lookup"
  ELSE IF ~(env.removeOk /\ name \in worktrees) THEN "worktree"
  ELSE IF ~env.deleteOk THEN "row"
  ELSE "ok"

DeleteSession(name, env) ==
  LET out == DeleteOutcome(name, env)
      session == GetSessionByName(name, env.lookupOk)
  IN
  /\ worktrees' = IF out \in {"row", "ok"} THEN worktrees \ {name}
                  ELSE worktrees
  /\ rows' = IF out = "ok" THEN {r \in rows : r.id # session.id} ELSE rows
  /\ UNCHANGED <<nextId, branches, touchSnap, lastCreate>>

(***************************************************************************)
(* Service.ArchiveSession, UnarchiveSession, TouchSession.  ok tells       *)
(* whether the database answers; the call returns an error when it does    *)
(* not or when GetSession finds no row.                                    *)
(***************************************************************************)
ArchivedStatusOnly(r) == [r EXCEPT !.status = "archived"]
Archived(r) == [r EXCEPT !.archivedAt = TRUE, !.status = "archived"]
Unarchived(r) == [r EXCEPT !.archivedAt = FALSE, !.status = "active"]

UpdateSucceeds(name, ok) == GetSessionByName(name, ok) # NoRow

ArchiveSession(name, ok) ==
  LET session == GetSessionByName(name, ok) IN
  /\ rows' = IF session # NoRow THEN UpdateWhereId(session.id, Archived)
             ELSE rows
  /\ UNCHANGED <<nextId, worktrees, branches, touchSnap, lastCreate>>

UnarchiveSession(name, ok) ==
  LET session == GetSessionByName(name, ok) IN
  /\ rows' = IF session # NoRow THEN UpdateWhereId(session.id, Unarchived)
             ELSE rows
  /\ UNCHANGED <<nextId, worktrees, branches, touchSnap, lastCreate>>

(* TouchSession reads the row, then writes every column of it back with
   last_accessed = now. *)
TouchRead(name) ==
  /\ touchSnap = NoRow
  /\ GetSessionByName(name, TRUE) # NoRow
  /\ touchSnap' = GetSessionByName(name, TRUE)
  /\ UNCHANGED <<rows, nextId, worktrees, branches, lastCreate>>

Written(r) == [touchSnap EXCEPT !.lastAccessed = TRUE]

TouchWrite(ok) ==
  /\ touchSnap # NoRow
  /\ rows' = IF ok THEN UpdateWhereId(touchSnap.id, Written) ELSE rows
  /\ touchSnap' = NoRow
  /\ UNCHANGED <<nextId, worktrees, branches, lastCreate>>

(* TouchSession with no other call between its read and its write. *)
Touched(r) == [r EXCEPT !.lastAccessed = TRUE]

TouchSession(name, ok) ==
  LET session == GetSessionByName(name, ok) IN
  /\ touchSnap = NoRow
  /\ rows' = IF session # NoRow THEN UpdateWhereId(session.id, Touched)
             ELSE rows
  /\ UNCHANGED <<nextId, worktrees, branches, touchSnap, lastCreate>>

(***************************************************************************)
(* SpecSvc: the service's operations in any order.                         *)
(***************************************************************************)
NoCreate ==
  [name |-> "", failedAt |-> "none", made |-> FALSE, cleanup |-> FALSE,
   inserted |-> FALSE, changed |-> FALSE]

InitSvc ==
  /\ rows = {}
  /\ nextId = 1
  /\ worktrees = {}
  /\ branches = {}
  /\ touchSnap = NoRow
  /\ lastCreate = NoCreate

Create ==
  /\ \E name \in CreateNames, useExisting \in BOOLEAN, env \in CreateEnvs :
        CreateSession(name, useExisting, env)
  /\ UNCHANGED notSvc

Delete ==
  /\ \E name \in Names, env \in DeleteEnvs : DeleteSession(name, env)
  /\ UNCHANGED notSvc

Archive ==
  /\ \E name \in Names, ok \in BOOLEAN : ArchiveSession(name, ok)
  /\ UNCHANGED notSvc

Unarchive ==
  /\ \E name \in Names, ok \in BOOLEAN : UnarchiveSession(name, ok)
  /\ UNCHANGED notSvc

TouchBegin ==
  /\ \E name \in Names : TouchRead(name)
  /\ UNCHANGED notSvc

TouchEnd ==
  /\ \E ok \in BOOLEAN : TouchWrite(ok)
  /\ UNCHANGED notSvc

NextSvc == Create \/ Delete \/ Archive \/ Unarchive \/ TouchBegin \/ TouchEnd

(***************************************************************************)
(* tui.Model and the program around it.  The reducer (Update) handles one  *)
(* key or message at a time; every tea.Cmd it returns runs in a goroutine  *)
(* of its own.  A handle of the map m.terminals is "polling" while its     *)
(* pollLoop runs and "detached" once Detach() stopped it.                  *)
(***************************************************************************)
NoName == ""

Cmd(kind, name, switchFocus, pc) ==
  [kind |-> kind, name |-> name, switchFocus |-> switchFocus, pc |-> pc]
Msg(type, name, list) == [type |-> type, name |-> name, sessions |-> list]

loadSessionsCmd == Cmd("load", NoName, FALSE, "run")
activateSession(name, switchFocus) ==
  Cmd("activate", name, switchFocus, "setActive")

(* Model.Init: loadSessions is the first command. *)
NewModel ==
  [sessions |-> <<>>, cursor |-> 0, focus |-> "sidebar", overlay |-> "none",
   activeSession |-> NoName, activatingSession |-> NoName,
   selectedSession |-> NoName, deleteFromArchived |-> FALSE,
   archivedList |-> <<>>, archivedCursor |-> 0,
   pendingSessionName |-> NoName, selectAfterLoad |-> NoName,
   terminals |-> [n \in Names |-> "none"]]

InitTui ==
  /\ m = NewModel
  /\ tmuxSessions = [n \in Names |-> "none"]
  /\ cmds = {loadSessionsCmd}
  /\ inbox = {}
  /\ quit = FALSE
  /\ sendKeysCalls = 0

(* No call of a stateless function is under way. *)
NoCall == [fn |-> "none"]
NoCalls ==
  /\ call = NoCall
  /\ ret = NoCall

(* SELECT ... ORDER BY created_at DESC: the model hands out ids in the
   order of creation. *)
RECURSIVE NewestFirst(_)
NewestFirst(rs) ==
  IF rs = {} THEN <<>>
  ELSE LET r == CHOOSE x \in rs : \A y \in rs : y.id <= x.id
       IN <<[name |-> r.name, status |-> r.status]>>
            \o NewestFirst(rs \ {r})

ListSessions == NewestFirst(rows)

IsActive(sess) == sess.status # "archived"
IsArchived(sess) == sess.status = "archived"
activeSessions(list) == SelectSeq(list, IsActive)
archivedSessionsList(list) == SelectSeq(list, IsArchived)
archivedCount(list) == Len(archivedSessionsList(list))

(* The last index the sidebar cursor may take: the active sessions, then
   the "archived" line when there are archived sessions. *)
maxIdx(list) ==
  Len(activeSessions(list)) - 1 + (IF archivedCount(list) > 0 THEN 1 ELSE 0)

(* Terminal.IsRunning of the handle of session name. *)
IsRunningOf(name) == tmuxSessions[name] # "dead"

(* switchViewToCurrentSession: the session under the cursor becomes the
   active one, and is activated when it has no handle and no activation of
   it is marked in flight. *)
cursorSession(mm) ==
  LET active == activeSessions(mm.sessions) IN
  IF mm.cursor >= 0 /\ mm.cursor < Len(active)
  THEN active[mm.cursor + 1].name
  ELSE NoName

switchViewModel(mm) ==
  IF cursorSession(mm) # NoName
  THEN [mm EXCEPT !.activeSession = cursorSession(mm)]
  ELSE mm

switchViewCmd(mm) ==
  LET name == cursorSession(mm) IN
  IF name # NoName /\ mm.terminals[name] = "none"
     /\ mm.activatingSession # name
  THEN {activateSession(name, FALSE)}
  ELSE {}

(* One run of the reducer on a key: the new model and the commands it
   returns. *)
TerminalMsgTypes == {"terminalOutput", "terminalExited"}

Room ==
  Cardinality(cmds)
    + Cardinality({msg \in inbox : msg.type \notin TerminalMsgTypes})
  < MaxInFlight

OnKey(mm, started) ==
  /\ ~quit
  /\ started # {} => Room
  /\ m' = mm
  /\ cmds' = cmds \cup started
  /\ UNCHANGED <<tmuxSessions, inbox, quit, svcVars, notTui>>

(* return m, tea.Quit: the program ends, and with it its command goroutines
   and the messages nobody handled. *)
Quit(mm) ==
  /\ ~quit
  /\ m' = mm
  /\ quit' = TRUE
  /\ cmds' = {}
  /\ inbox' = {}
  /\ UNCHANGED <<tmuxSessions, svcVars, notTui>>

InSidebarUnderOverlay == m.focus = "sidebar"
InSidebar == m.overlay = "none" /\ m.focus = "sidebar"

(***************************************************************************)
(* handleKeyMsg, handleSidebarKeys, handleTerminalKeys.                    *)
(***************************************************************************)
(* "q", "ctrl+c": Detach() every handle of the map, then quit. *)
SidebarQuit ==
  /\ InSidebar
  /\ Quit([m EXCEPT !.terminals =
             [n \in Names |-> IF m.terminals[n] = "polling" THEN "detached"
                              ELSE m.terminals[n]]])

SidebarUp ==
  /\ InSidebar
  /\ m.cursor > 0
  /\ LET moved == [m EXCEPT !.cursor = @ - 1]
     IN OnKey(switchViewModel(moved), switchViewCmd(moved))

SidebarDown ==
  /\ InSidebar
  /\ m.cursor < maxIdx(m.sessions)
  /\ LET moved == [m EXCEPT !.cursor = @ + 1]
     IN OnKey(switchViewModel(moved), switchViewCmd(moved))

openArchivedOverlay ==
  OnKey([m EXCEPT !.archivedList = archivedSessionsList(m.sessions),
                  !.archivedCursor = 0,
                  !.overlay = "archivedSessions"], {})

handleEnter ==
  /\ InSidebar
  /\ LET active == activeSessions(m.sessions) IN
     IF archivedCount(m.sessions) > 0 /\ m.cursor = Len(active)
     THEN openArchivedOverlay
     ELSE /\ m.cursor < Len(active)
          /\ OnKey(m, {activateSession(active[m.cursor + 1].name, TRUE)})

openCreateOverlay ==
  /\ InSidebar
  /\ OnKey([m EXCEPT !.overlay = "createSession"], {})

openDeleteOverlay ==
  /\ InSidebar
  /\ cursorSession(m) # NoName
  /\ OnKey([m EXCEPT !.selectedSession = cursorSession(m),
                     !.overlay = "deleteConfirm"], {})

handleArchive ==
  /\ InSidebar
  /\ cursorSession(m) # NoName
  /\ OnKey(m, {Cmd("archive", cursorSession(m), FALSE, "run")})

SidebarHelp ==
  /\ InSidebar
  /\ OnKey([m EXCEPT !.overlay = "help"], {})

SidebarEsc ==
  /\ InSidebar
  /\ m.activeSession # NoName
  /\ OnKey([m EXCEPT !.focus = "terminal"], {})

(* Ctrl+C with the focus on the terminal goes back to the sidebar. *)
TerminalCtrlC ==
  /\ m.overlay = "none" /\ m.focus = "terminal"
  /\ OnKey([m EXCEPT !.focus = "sidebar"], {})

(* Enter on a handle whose pane is dead: Respawn(true). *)
TerminalEnter ==
  /\ ~quit
  /\ m.overlay = "none" /\ m.focus = "terminal"
  /\ m.activeSession # NoName
  /\ m.terminals[m.activeSession] # "none"
  /\ ~IsRunningOf(m.activeSession)
  /\ \E ok \in BOOLEAN :
        tmuxSessions' = IF ok THEN [tmuxSessions EXCEPT ![m.activeSession] = "alive"]
                        ELSE tmuxSessions
  /\ UNCHANGED <<m, cmds, inbox, quit, svcVars, notTui>>

(***************************************************************************)
(* The overlays' key handlers.                                             *)
(***************************************************************************)
CreateEsc ==
  /\ m.overlay = "createSession"
  /\ OnKey([m EXCEPT !.overlay = "none"], {})

CreateCtrlC ==
  /\ m.overlay = "createSession"
  /\ Quit(m)

(* Where the delete confirmation returns to. *)
afterDelete(mm) ==
  [mm EXCEPT !.overlay = IF mm.deleteFromArchived THEN "archivedSessions"
                         ELSE "none",
             !.deleteFromArchived = FALSE,
             !.selectedSession = NoName]

(* "y": Close() the session's handle when the map has one (kill-session,
   unless the handle was stopped before), then the delete command. *)
DeleteYes ==
  LET name == m.selectedSession IN
  /\ ~quit
  /\ m.overlay = "deleteConfirm"
  /\ name # NoName
  /\ Room
  /\ m' = [m EXCEPT !.terminals[name] = "none"]
  /\ tmuxSessions' = IF m.terminals[name] = "polling"
                     THEN [tmuxSessions EXCEPT ![name] = "none"]
                     ELSE tmuxSessions
  /\ cmds' = cmds \cup {Cmd("delete", name, FALSE, "run")}
  /\ UNCHANGED <<inbox, quit, svcVars, notTui>>

DeleteNo ==
  /\ m.overlay = "deleteConfirm"
  /\ OnKey(afterDelete(m), {})

DeleteCtrlC ==
  /\ m.overlay = "deleteConfirm"
  /\ Quit(m)

HelpClose ==
  /\ m.overlay = "help"
  /\ OnKey([m EXCEPT !.overlay = "none"], {})

HelpCtrlC ==
  /\ m.overlay = "help"
  /\ Quit(m)

ArchivedUp ==
  /\ m.overlay = "archivedSessions"
  /\ m.archivedCursor > 0
  /\ OnKey([m EXCEPT !.archivedCursor = @ - 1], {})

ArchivedDown ==
  /\ m.overlay = "archivedSessions"
  /\ m.archivedCursor < Len(m.archivedList) - 1
  /\ OnKey([m EXCEPT !.archivedCursor = @ + 1], {})

ArchivedUnarchive ==
  /\ m.overlay = "archivedSessions"
  /\ m.archivedCursor < Len(m.archivedList)
  /\ OnKey(m, {Cmd("unarchive", m.archivedList[m.archivedCursor + 1].name,
                   FALSE, "run")})

ArchivedDelete ==
  /\ m.overlay = "archivedSessions"
  /\ m.archivedCursor < Len(m.archivedList)
  /\ OnKey([m EXCEPT !.selectedSession =
                        m.archivedList[m.archivedCursor + 1].name,
                     !.deleteFromArchived = TRUE,
                     !.overlay = "deleteConfirm"], {})

ArchivedEsc ==
  /\ m.overlay = "archivedSessions"
  /\ OnKey([m EXCEPT !.overlay = "none"], {})

ArchivedCtrlC ==
  /\ m.overlay = "archivedSessions"
  /\ Quit(m)

(***************************************************************************)
(* Update on the messages of the commands.                                 *)
(***************************************************************************)
OnMsg(msg, mm, started) ==
  /\ ~quit
  /\ m' = mm
  /\ inbox' = inbox \ {msg}
  /\ cmds' = cmds \cup started
  /\ UNCHANGED <<tmuxSessions, quit, svcVars, notTui>>

keepCursor(mm) == mm
clampCursor(mm) ==
  [mm EXCEPT !.cursor = Min(@, Max(maxIdx(mm.sessions), 0))]

refreshArchived(mm) ==
  LET list == archivedSessionsList(mm.sessions) IN
  IF mm.overlay # "archivedSessions" THEN mm
  ELSE [mm EXCEPT !.archivedList = list,
                  !.overlay = IF list = <<>> THEN "none" ELSE @,
                  !.archivedCursor =
                     IF list # <<>> /\ @ >= Len(list) THEN Len(list) - 1
                     ELSE @]

(* The cursor moves to the session named by m.selectAfterLoad when it is
   among the active ones. *)
selectAfterLoad(mm) ==
  LET active == activeSessions(mm.sessions)
      found == {i \in 1..Len(active) : active[i].name = mm.selectAfterLoad}
  IN
  IF mm.selectAfterLoad = NoName THEN mm
  ELSE [mm EXCEPT !.cursor = IF found # {} THEN (CHOOSE i \in found : TRUE) - 1
                              ELSE @,
                  !.selectAfterLoad = NoName]

sessionsLoadedMsg ==
  \E msg \in inbox :
     /\ msg.type = "sessionsLoaded"
     /\ LET loaded == clampCursor(selectAfterLoad(
                         [m EXCEPT !.sessions = msg.sessions]))
        IN OnMsg(msg, refreshArchived(switchViewModel(loaded)),
                 switchViewCmd(loaded))

clearActive(mm, name) ==
  [mm EXCEPT !.activeSession = IF @ = name THEN NoName ELSE @]

sessionDeletedMsg ==
  \E msg \in inbox :
     /\ msg.type = "sessionDeleted"
     /\ OnMsg(msg, afterDelete(clearActive(m, msg.name)), {loadSessionsCmd})

(* detachTerminal: Detach() the handle and drop it from the map; the tmux
   session keeps running. *)
keepTerminal(mm, name) == mm
detachTerminal(mm, name) == [mm EXCEPT !.terminals[name] = "none"]

sessionArchivedMsg ==
  \E msg \in inbox :
     /\ msg.type = "sessionArchived"
     /\ OnMsg(msg, clearActive(detachTerminal(m, msg.name), msg.name),
              {loadSessionsCmd})

sessionUnarchivedMsg ==
  \E msg \in inbox :
     /\ msg.type = "sessionUnarchived"
     /\ OnMsg(msg, m, {loadSessionsCmd})

errMsg ==
  \E msg \in inbox :
     /\ msg.type = "err"
     /\ OnMsg(msg, [m EXCEPT !.overlay = IF @ = "creating" THEN "none" ELSE @],
              {})

(***************************************************************************)
(* The command goroutines.                                                 *)
(***************************************************************************)
Err == Msg("err", NoName, <<>>)

(* The command returns msg. *)
Return(c, msg) ==
  /\ cmds' = cmds \ {c}
  /\ inbox' = inbox \cup {msg}

Goto(c, pc) == cmds' = (cmds \ {c}) \cup {[c EXCEPT !.pc = pc]}

loadSessions ==
  \E c \in cmds, ok \in BOOLEAN :
     /\ ~quit
     /\ c.kind = "load"
     /\ Return(c, IF ok THEN Msg("sessionsLoaded", NoName, ListSessions)
                  ELSE Err)
     /\ UNCHANGED <<m, tmuxSessions, quit, svcVars, notTui>>

archiveCmd ==
  \E c \in cmds, ok \in BOOLEAN :
     /\ ~quit
     /\ c.kind = "archive"
     /\ ArchiveSession(c.name, ok)
     /\ Return(c, IF UpdateSucceeds(c.name, ok)
                  THEN Msg("sessionArchived", c.name, <<>>)
                  ELSE Err)
     /\ UNCHANGED <<m, tmuxSessions, quit, notTui>>

unarchiveCmd ==
  \E c \in cmds, ok \in BOOLEAN :
     /\ ~quit
     /\ c.kind = "unarchive"
     /\ UnarchiveSession(c.name, ok)
     /\ Return(c, IF UpdateSucceeds(c.name, ok)
                  THEN Msg("sessionUnarchived", c.name, <<>>)
                  ELSE Err)
     /\ UNCHANGED <<m, tmuxSessions, quit, notTui>>

deleteCmd ==
  \E c \in cmds, env \in DeleteEnvs :
     /\ ~quit
     /\ c.kind = "delete"
     /\ DeleteSession(c.name, env)
     /\ Return(c, IF DeleteOutcome(c.name, env) = "ok"
                  THEN Msg("sessionDeleted", c.name, <<>>)
                  ELSE Err)
     /\ UNCHANGED <<m, tmuxSessions, quit, notTui>>

(* The command of activateSession, statement by statement:
   m.activeSession = sess; m.focus = focusTerminal *)
ActSetActive ==
  \E c \in cmds :
     /\ ~quit
     /\ c.kind = "activate" /\ c.pc = "setActive"
     /\ m' = [m EXCEPT !.activeSession = c.name,
                       !.focus = IF c.switchFocus THEN "terminal" ELSE @]
     /\ Goto(c, "ensure")
     /\ UNCHANGED <<tmuxSessions, inbox, quit, svcVars, notTui>>

(* ensureTerminal: a running handle is only resized; otherwise the handle,
   if any, is detached and dropped, and the session is attached to
   (respawned when its pane is dead) or created. *)
ActEnsure ==
  \E c \in cmds, ok \in BOOLEAN :
     LET name == c.name
         attach == tmuxSessions[name] # "none"
         failed == ~ok /\ tmuxSessions[name] # "alive"
     IN
     /\ ~quit
     /\ c.kind = "activate" /\ c.pc = "ensure"
     /\ IF m.terminals[name] # "none" /\ IsRunningOf(name)
        THEN /\ UNCHANGED <<m, tmuxSessions, inbox>>
             /\ Goto(c, "touch")
        ELSE /\ m' = [m EXCEPT !.terminals[name] =
                                  IF attach \/ ok THEN "polling" ELSE "none"]
             /\ tmuxSessions' = IF ok THEN [tmuxSessions EXCEPT ![name] = "alive"]
                                ELSE tmuxSessions
             /\ IF failed
                THEN Return(c, Err)
                ELSE Goto(c, "touch") /\ UNCHANGED inbox
     /\ UNCHANGED <<quit, svcVars, notTui>>

(* m.service.TouchSession(sess.Name); its error is dropped. *)
ActTouch ==
  \E c \in cmds, ok \in BOOLEAN :
     /\ ~quit
     /\ c.kind = "activate" /\ c.pc = "touch"
     /\ TouchSession(c.name, ok)
     /\ Goto(c, "clear")
     /\ UNCHANGED <<m, tmuxSessions, inbox, quit, notTui>>

(* m.activatingSession = ""; return nil *)
ActClear ==
  \E c \in cmds :
     /\ ~quit
     /\ c.kind = "activate" /\ c.pc = "clear"
     /\ m' = [m EXCEPT !.activatingSession = NoName]
     /\ cmds' = cmds \ {c}
     /\ UNCHANGED <<tmuxSessions, inbox, quit, svcVars, notTui>>

(* The process in a session's pane exits. *)
PaneExits ==
  \E name \in Names :
     /\ ~quit
     /\ tmuxSessions[name] = "alive"
     /\ tmuxSessions' = [tmuxSessions EXCEPT ![name] = "dead"]
     /\ UNCHANGED <<m, cmds, inbox, quit, svcVars, notTui>>

NextTui ==
  \/ SidebarQuit \/ SidebarUp \/ SidebarDown \/ handleEnter
  \/ openCreateOverlay \/ openDeleteOverlay \/ handleArchive
  \/ SidebarHelp \/ SidebarEsc \/ TerminalCtrlC \/ TerminalEnter
  \/ CreateEsc \/ CreateCtrlC \/ DeleteYes \/ DeleteNo \/ DeleteCtrlC
  \/ HelpClose \/ HelpCtrlC
  \/ ArchivedUp \/ ArchivedDown \/ ArchivedUnarchive \/ ArchivedDelete
  \/ ArchivedEsc \/ ArchivedCtrlC
  \/ sessionsLoadedMsg \/ sessionDeletedMsg \/ sessionArchivedMsg
  \/ sessionUnarchivedMsg \/ errMsg
  \/ loadSessions \/ archiveCmd \/ unarchiveCmd \/ deleteCmd
  \/ ActSetActive \/ ActEnsure \/ ActTouch \/ ActClear
  \/ PaneExits

(***************************************************************************)
(* Creating a session: Enter in the name overlay, Enter on a base branch,  *)
(* doCreateSession and its command, sessionCreatedMsg.  The list of        *)
(* branches that loadBranches fetches for the overlay is not modelled.     *)
(***************************************************************************)
(* Enter in the name overlay: an empty or invalid name only sets m.err. *)
CreateEnter ==
  /\ m.overlay = "createSession"
  /\ \E name \in CreateNames :
        IF ValidateBranchName(name)
        THEN OnKey([m EXCEPT !.pendingSessionName = name,
                             !.overlay = "selectBaseBranch"], {})
        ELSE OnKey(m, {})

SelectBaseEsc ==
  /\ m.overlay = "selectBaseBranch"
  /\ OnKey([m EXCEPT !.overlay = "createSession"], {})

SelectBaseCtrlC ==
  /\ m.overlay = "selectBaseBranch"
  /\ Quit(m)

(* Enter on a base branch: doCreateSession(baseBranch, false). *)
SelectBaseEnter ==
  /\ m.overlay = "selectBaseBranch"
  /\ nextId <= MaxIds
  /\ OnKey([m EXCEPT !.overlay = "creating"],
           {Cmd("create", m.pendingSessionName, FALSE, "run")})

createCmd ==
  \E c \in cmds, env \in CreateEnvs :
     /\ ~quit
     /\ c.kind = "create"
     /\ CreateSession(c.name, FALSE, env)
     /\ Return(c, IF CreateOutcome(c.name, FALSE, nextId, env) = "ok"
                  THEN Msg("sessionCreated", c.name, <<>>)
                  ELSE Err)
     /\ UNCHANGED <<m, tmuxSessions, quit, notTui>>

(* tea.Batch(m.loadSessions(), m.activateSession(msg.session, true)) *)
sessionCreatedMsg ==
  \E msg \in inbox :
     /\ msg.type = "sessionCreated"
     /\ OnMsg(msg, [m EXCEPT !.overlay = "none",
                             !.pendingSessionName = NoName,
                             !.selectAfterLoad = msg.name,
                             !.activatingSession = msg.name],
              {loadSessionsCmd, activateSession(msg.name, TRUE)})

(***************************************************************************)
(* The messages of the handles' poll goroutines.  TerminalOutputMsg        *)
(* carries no name in the program; the model records its sender.  At most  *)
(* one such message waits in the inbox.                                    *)
(***************************************************************************)
TerminalSend ==
  \E n \in Names :
     /\ ~quit
     /\ m.terminals[n] = "polling"
     /\ tmuxSessions[n] # "none"
     /\ \A msg \in inbox : msg.type \notin TerminalMsgTypes
     /\ inbox' = inbox \cup
           {Msg(IF tmuxSessions[n] = "dead" THEN "terminalExited"
                ELSE "terminalOutput", n, <<>>)}
     /\ UNCHANGED <<m, tmuxSessions, cmds, quit, svcVars, notTui>>

(* Update on TerminalOutputMsg and TerminalExitedMsg: return m, nil. *)
terminalMsgReload == {loadSessionsCmd}
terminalMsgCmd == {}

terminalOutputMsg ==
  \E msg \in inbox :
     /\ msg.type = "terminalOutput"
     /\ OnMsg(msg, m, terminalMsgCmd)

terminalExitedMsg ==
  \E msg \in inbox :
     /\ msg.type = "terminalExited"
     /\ OnMsg(msg, m, terminalMsgCmd)

(***************************************************************************)
(* handleTerminalKeys on a running handle: the key goes to tmux.           *)
(* handleMouseMsg: a left press in the terminal pane.                      *)
(***************************************************************************)
TerminalSendKeys ==
  /\ ~quit
  /\ m.overlay = "none" /\ m.focus = "terminal"
  /\ m.activeSession # NoName
  /\ m.terminals[m.activeSession] # "none"
  /\ IsRunningOf(m.activeSession)
  /\ sendKeysCalls' = (sendKeysCalls + 1) % 2
  /\ UNCHANGED <<tuiVars, svcVars, termVars, call, ret>>

MouseIgnored == m.overlay # "none"

MousePressTerminal ==
  /\ ~quit
  /\ m' = IF ~MouseIgnored /\ m.activeSession # NoName /\ m.focus = "sidebar"
          THEN [m EXCEPT !.focus = "terminal"]
          ELSE m
  /\ UNCHANGED <<tmuxSessions, cmds, inbox, quit, svcVars, notTui>>

(***************************************************************************)
(* SpecCreate: the program started in a repository that has no session.    *)
(* The user creates sessions, moves between them and archives them; the    *)
(* handles' poll goroutines send their messages.                           *)
(***************************************************************************)
NextCreate ==
  \/ SidebarUp \/ SidebarDown \/ openCreateOverlay \/ handleArchive
  \/ TerminalCtrlC
  \/ CreateEsc \/ CreateEnter \/ SelectBaseEsc \/ SelectBaseEnter
  \/ sessionsLoadedMsg \/ sessionCreatedMsg \/ sessionArchivedMsg \/ errMsg
  \/ terminalOutputMsg \/ terminalExitedMsg
  \/ loadSessions \/ createCmd \/ archiveCmd
  \/ ActSetActive \/ ActEnsure \/ ActTouch \/ ActClear
  \/ PaneExits \/ TerminalSend

(***************************************************************************)
(* SpecModal: the program over the sessions of an earlier run, with the    *)
(* keys of every handler but the two that start a deletion ('y') or a     *)
(* creation (Enter on a base branch), the mouse, and the commands and      *)
(* messages the keys start.                                                *)
(***************************************************************************)
KeyEvent ==
  \/ SidebarQuit \/ SidebarUp \/ SidebarDown \/ handleEnter
  \/ openCreateOverlay \/ openDeleteOverlay \/ handleArchive
  \/ SidebarHelp \/ SidebarEsc \/ TerminalCtrlC \/ TerminalSendKeys
  \/ CreateEsc \/ CreateCtrlC \/ CreateEnter
  \/ SelectBaseEsc \/ SelectBaseCtrlC
  \/ DeleteNo \/ DeleteCtrlC
  \/ HelpClose \/ HelpCtrlC
  \/ ArchivedUp \/ ArchivedDown \/ ArchivedUnarchive \/ ArchivedDelete
  \/ ArchivedEsc \/ ArchivedCtrlC

NextModal ==
  \/ KeyEvent
  \/ MousePressTerminal
  \/ sessionsLoadedMsg \/ sessionArchivedMsg \/ sessionUnarchivedMsg
  \/ errMsg
  \/ loadSessions \/ archiveCmd \/ unarchiveCmd
  \/ ActSetActive \/ ActEnsure \/ ActTouch \/ ActClear

(***************************************************************************)
(* SpecTerm: one handle over one pane.                                     *)
(***************************************************************************)
InitTerm ==
  /\ muxExists \in BOOLEAN
  /\ childAlive \in BOOLEAN
  /\ muxExists \/ ~childAlive
  /\ deaths = IF muxExists /\ ~childAlive THEN 1 ELSE 0
  /\ screen \in Screens
  /\ histSize \in 0..MaxHist
  /\ muxExists \/ (screen = "screenA" /\ histSize = 0)
  /\ handle = "none"
  /\ mu = "free"
  /\ closed = FALSE
  /\ doneCloses = 0
  /\ lastCapture = NoOutput
  /\ visHeight = MinTermHeight
  /\ scrollLines = 0
  /\ cachedHistSize = 0
  /\ paneDead = FALSE
  /\ pollPc = "none"
  /\ pollOutput = NoOutput
  /\ pollHist = 0
  /\ pollChanged = FALSE
  /\ pollWasDead = FALSE
  /\ pollObs = 0
  /\ period = 50
  /\ callPc = "idle"
  /\ callArg = 0
  /\ exitedFor = [d \in 1..MaxDeaths |-> 0]
  /\ attached = FALSE
  /\ killCalls = 0
  /\ strayPolls = [n \in Names |-> 0]
  /\ sel = NoSelection
  /\ mouse = NoMouse

NextTerm ==
  \/ MuxOutput \/ MuxClearHistory \/ ChildExit
  \/ New \/ AttachStart \/ AttachCheck \/ AttachSet
  \/ PollStep
  \/ CallStep

(* A handle over a pane that is new or was left running by an earlier run
   of the program; the sessions table plays no part. *)
InitHandle == InitTerm /\ InitSvc /\ InitTui /\ NoCalls
SpecTerm == InitHandle /\ [][NextTerm]_vars

(* The service runs with no handle and no tmux session around. *)
InitService == InitTerm /\ ~muxExists /\ InitSvc /\ InitTui /\ NoCalls
SpecSvc == InitService /\ [][NextSvc]_vars

(* The program's first run in a repository: no row, no worktree, no tmux
   session, and loadSessions as the first command. *)
SpecCreate == InitService /\ [][NextCreate]_vars

(***************************************************************************)
(* SpecTui: the program started over the sessions of an earlier run, each  *)
(* with or without the tmux session that run left behind.  The names being *)
(* interchangeable, the stored rows take their ids in the order of Names.  *)
(***************************************************************************)
StoredId == "feat-a" :> 1 @@ "feat-b" :> 2
StoredRow(name, status) ==
  [NewRow(StoredId[name], name) EXCEPT !.status = status,
                                       !.archivedAt = (status = "archived"),
                                       !.lastAccessed = TRUE]

InitProgram ==
  /\ InitTerm /\ ~muxExists
  /\ rows = {StoredRow(n, "active") : n \in Names}
  /\ worktrees = Names
  /\ branches = Names
  /\ tmuxSessions \in [Names -> {"none", "alive"}]
  /\ nextId = Cardinality(Names) + 1
  /\ touchSnap = NoRow
  /\ lastCreate = NoCreate
  /\ m = NewModel
  /\ cmds = {loadSessionsCmd}
  /\ inbox = {}
  /\ quit = FALSE
  /\ sendKeysCalls = 0
  /\ NoCalls

SpecTui == InitProgram /\ [][NextTui]_vars
SpecModal == InitProgram /\ [][NextModal]_vars

(***************************************************************************)
(* Where each goroutine stands right before a step that reads or writes a  *)
(* field of the handle, and right before a program.Send.                   *)
(***************************************************************************)
PollAccessPcs == {"update", "markDead"}
CallAccessPcs == {"ScrollUp", "ScrollDown", "IsRunning", "respawnSet",
                  "Resize", "Render", "renderRange", "attachSet", "Close",
                  "Detach"}
PollSends ==
  \/ pollPc = "sendOutput" /\ pollChanged
  \/ pollPc = "sendExited" /\ ~pollWasDead

(***************************************************************************)
(* Claims about the terminal handle.                                       *)
(***************************************************************************)
(* C1: for every death of the pane's process, the poll goroutine sends at
   most one TerminalExitedMsg. *)
AtMostOneExitedPerDeath == \A d \in DOMAIN exitedFor : exitedFor[d] <= 1

(* C7: once Close or Detach has returned, the poll goroutine sends neither
   TerminalOutputMsg nor TerminalExitedMsg. *)
NoMessageAfterStop == handle = "released" => ~PollSends

(* C9: every read and write of lastCapture, scrollLines, paneDead, closed,
   cachedHistSize and visHeight happens with t.mu held by the goroutine
   that makes it. *)
AllAccessUnderMutex ==
  /\ pollPc \in PollAccessPcs => mu = "poll"
  /\ callPc \in CallAccessPcs => mu = "caller"

(* C10: the scrollback offset stays within [0, cached history size]. *)
ScrollWithinHistory == scrollLines >= 0 /\ scrollLines <= cachedHistSize

(* C11: once Respawn has succeeded on a handle whose pane was dead, and
   for as long as the respawned process lives, IsRunning reports true,
   wherever the poll goroutine stood when Respawn ran. *)
RespawnedStaysRunning ==
  (/\ handle = "live" /\ muxExists /\ childAlive /\ deaths > 0
   /\ callPc \notin {"respawnLock", "respawnSet"})
     => ~paneDead

(* C13: a handle that ensureTerminal obtained by Attach, because the tmux
   session was on the socket, reports IsRunning() = false only when the
   pane's process is dead, once Attach and the Respawn that follows it on a
   dead pane have returned. *)
AttachedReportsChildState ==
  (attached /\ handle = "live" /\ callPc = "idle" /\ paneDead)
     => ~childAlive

(***************************************************************************)
(* Claims about session.Service.                                           *)
(***************************************************************************)
HasRow(name) == RowsByName(name) # {}

(* C2: after any sequence of create, delete, archive and unarchive calls,
   failed ones included, a session row exists exactly when its worktree
   exists. *)
RowIffWorktree == \A n \in Names : HasRow(n) <=> n \in worktrees

(* C3: when CreateSession fails after it has created the worktree (the
   config load, a setup command or the insert failed), it has invoked the
   worktree's removal before returning and has inserted no row. *)
CreateFailureRollsBack ==
  (lastCreate.made /\ lastCreate.failedAt # "ok")
     => (lastCreate.cleanup /\ ~lastCreate.inserted)

CreateFailedAfterWorktree ==
  /\ lastCreate.made
  /\ lastCreate.failedAt = "insert"
  /\ lastCreate.cleanup
  /\ lastCreate.name \in branches

(* C4 as stated: when a setup command fails during creation, the session's
   row is already in the table and stays there, and the worktree's removal
   is not invoked. *)
SetupFailureKeepsSession ==
  lastCreate.failedAt = "setup"
     => (HasRow(lastCreate.name) /\ ~lastCreate.cleanup)

(* C4 amended: when a setup command fails during creation, no row has been
   inserted for the session, none is in the table, and the worktree's
   removal has been invoked before CreateSession returns. *)
SetupFailureRollsBack ==
  lastCreate.failedAt = "setup"
     => /\ ~lastCreate.inserted
        /\ ~HasRow(lastCreate.name)
        /\ lastCreate.cleanup

SetupFailed == lastCreate.failedAt = "setup" /\ lastCreate.made

(* C14: whatever calls of create, delete, archive, unarchive and touch were
   made, no two rows have the same name, no two rows have the same
   branch_name, and every row's branch_name is its name. *)
NamesAndBranchesUnique ==
  /\ \A r1, r2 \in rows :
        (r1.name = r2.name \/ r1.branch = r2.branch) => r1 = r2
  /\ \A r \in rows : r.branch = r.name

(* Two sessions are stored, one archived, one touched. *)
TwoRowsAfterUpdates ==
  /\ Cardinality(rows) = 2
  /\ \E r \in rows : r.status = "archived"
  /\ \E r \in rows : r.lastAccessed

(* C15: a CreateSession call that returns its error because the name is
   not a branch name, a session of that name exists, the existing branch
   has a session, or the worktree could not be created, leaves the table,
   the worktrees and the branches as they were. *)
RejectedCreateChangesNothing ==
  lastCreate.failedAt \in {"invalid", "exists", "branchTaken", "worktree"}
     => ~lastCreate.changed

(* The last create failed to make its worktree, beside a stored session. *)
CreateRejected ==
  /\ lastCreate.failedAt = "worktree"
  /\ lastCreate.name \in Names
  /\ lastCreate.name \notin worktrees
  /\ rows # {}

(* C16: in every state of the table, whatever the interleaving of create,
   archive, unarchive and the read and the write of touch, a row's status
   is 'archived' exactly when its archived_at is set. *)
StatusIffArchivedAt ==
  \A r \in rows : (r.status = "archived") <=> r.archivedAt

(* A touch has read a row and not yet written it, the row's status was
   flipped since, and an earlier touch of the row was written. *)
TouchOverlapsStatusFlip ==
  /\ touchSnap # NoRow
  /\ \E r \in rows :
        r.id = touchSnap.id /\ r.status # touchSnap.status /\ r.lastAccessed

(* C17: the write of TouchSession changes nothing but last_accessed: every
   row of the table before the write is in the table after it, the same in
   every column but last_accessed; so a touch that overlaps an archive or
   an unarchive does not undo the status flip. *)
TouchWritesOnlyLastAccessed ==
  [][(touchSnap # NoRow /\ touchSnap' = NoRow)
        => \A r \in rows :
              r \in rows' \/ [r EXCEPT !.lastAccessed = TRUE] \in rows']_vars

(***************************************************************************)
(* Claims about the program.                                               *)
(***************************************************************************)
(* The statements of the activation command that read or write the Model
   or the map m.terminals. *)
ModelAccessPcs == {"setActive", "ensure", "clear"}

(* C5: once a deletion was confirmed in the delete overlay, opened from the
   sidebar or from the archived-sessions overlay, the session has no tmux
   session and no handle in m.terminals when the delete command is about to
   remove the row, and no tmux session when the row has been removed. *)
DeletionKillsSession ==
  /\ \A c \in cmds :
        c.kind = "delete"
           => (tmuxSessions[c.name] = "none" /\ m.terminals[c.name] = "none")
  /\ \A msg \in inbox :
        msg.type = "sessionDeleted" => tmuxSessions[msg.name] = "none"

(* C6: when the program has quit, from the sidebar or from an overlay, no
   handle of m.terminals is still polling. *)
QuitDetachesAll == quit => \A n \in Names : m.terminals[n] # "polling"

(* C8: no command goroutine reads or writes the Model or m.terminals: no
   activation command ever stands at a statement that does. *)
OnlyReducerTouchesModel ==
  \A c \in cmds : c.kind = "activate" => c.pc \notin ModelAccessPcs

(* C12: the reducer's step on sessionArchivedMsg leaves the session with no
   handle in m.terminals (its polling stopped by Detach) and leaves its tmux
   session as it was; and whenever a tmux session disappears from the
   socket, the step is the confirmation of that session's deletion. *)
ArchiveDetachesOnlyDeleteKills ==
  [][/\ \A msg \in inbox :
          (msg.type = "sessionArchived" /\ msg \notin inbox' /\ ~quit')
             => /\ m'.terminals[msg.name] = "none"
                /\ tmuxSessions'[msg.name] = tmuxSessions[msg.name]
     /\ \A n \in Names :
          (tmuxSessions[n] # "none" /\ tmuxSessions'[n] = "none")
             => /\ m.overlay = "deleteConfirm"
                /\ m.selectedSession = n
                /\ Cmd("delete", n, FALSE, "run") \in cmds']_vars

(* The archive message of a session has just been handled: the row is
   archived, the list is being reloaded, the map has no handle for the
   session, and its tmux session runs on. *)
ArchivedAndDetached ==
  \E n \in Names :
     /\ \E r \in RowsByName(n) : r.status = "archived"
     /\ \E i \in 1..Len(m.sessions) :
           m.sessions[i].name = n /\ m.sessions[i].status = "active"
     /\ loadSessionsCmd \in cmds
     /\ m.terminals[n] = "none"
     /\ m.activeSession = NoName
     /\ tmuxSessions[n] = "alive"

(* C18: when the reducer handles a TerminalExitedMsg or TerminalOutputMsg
   of a session that has no handle in m.terminals, the Model stays as it
   was and no command is started. *)
TerminalMsgWithoutHandleIgnored ==
  [][\A msg \in inbox :
        (/\ msg.type \in TerminalMsgTypes
         /\ m.terminals[msg.name] = "none"
         /\ inbox' = inbox \ {msg}
         /\ ~quit')
           => (m' = m /\ cmds' = cmds)]_vars

(* A message of a poll goroutine waits in the inbox and the session's
   handle has been removed from the map by the session's archival. *)
TerminalMsgOfRemovedHandle ==
  \E msg \in inbox :
     /\ msg.type \in TerminalMsgTypes
     /\ m.terminals[msg.name] = "none"
     /\ \E r \in RowsByName(msg.name) : r.status = "archived"

(* C19: whenever a TerminalOutputMsg of the handle of a created session is
   about to be handled, the session is in m.sessions. *)
OutputAfterSessionListed ==
  \A msg \in inbox :
     msg.type = "terminalOutput"
        => \E i \in 1..Len(m.sessions) : m.sessions[i].name = msg.name

(* C20: a key handled while an overlay is open moves neither the sidebar
   cursor nor the focus and is not passed to SendKeys, and a mouse event
   handled while an overlay is open leaves the Model as it was. *)
OverlayIsModal ==
  [][/\ (m.overlay # "none" /\ KeyEvent)
          => /\ m'.cursor = m.cursor
             /\ m'.focus = m.focus
             /\ sendKeysCalls' = sendKeysCalls
     /\ (m.overlay # "none" /\ MousePressTerminal) => m' = m]_vars

(* The archived-sessions overlay is open over two archived sessions and a
   key has moved its cursor down. *)
OverlayKeyHandled ==
  /\ m.overlay = "archivedSessions"
  /\ Len(m.archivedList) = 2
  /\ m.archivedCursor = 1

(***************************************************************************)
(* The "esc" case of each overlay's key handler.  The creating overlay     *)
(* takes no key at all.                                                    *)
(***************************************************************************)
EscKey ==
  \/ CreateEsc \/ SelectBaseEsc \/ DeleteNo \/ HelpClose \/ ArchivedEsc

(* C21: an Esc key handled while an overlay is open closes the overlay:
   afterwards the overlay is none. *)
EscClosesOverlay ==
  [][(m.overlay # "none" /\ EscKey) => m'.overlay = "none"]_vars

(***************************************************************************)
(* Terminal.SendKeys: a key message becomes the arguments of one tmux      *)
(* send-keys call, or none.  A string is the sequence of its bytes; the    *)
(* arguments are the words up to the key name or "-l", and the literal     *)
(* that follows "-l".                                                      *)
(***************************************************************************)
tmuxKeyNames ==
  "KeyEnter" :> "Enter" @@ "KeyBackspace" :> "BSpace" @@
  "KeyTab" :> "Tab" @@ "KeyShiftTab" :> "BTab" @@
  "KeyEscape" :> "Escape" @@ "KeySpace" :> "Space" @@ "KeyUp" :> "Up" @@
  "KeyDown" :> "Down" @@ "KeyRight" :> "Right" @@ "KeyLeft" :> "Left" @@
  "KeyShiftUp" :> "S-Up" @@ "KeyShiftDown" :> "S-Down" @@
  "KeyShiftLeft" :> "S-Left" @@ "KeyShiftRight" :> "S-Right" @@
  "KeyCtrlUp" :> "C-Up" @@ "KeyCtrlDown" :> "C-Down" @@
  "KeyCtrlLeft" :> "C-Left" @@ "KeyCtrlRight" :> "C-Right" @@
  "KeyCtrlShiftUp" :> "C-S-Up" @@ "KeyCtrlShiftDown" :> "C-S-Down" @@
  "KeyCtrlShiftLeft" :> "C-S-Left" @@
  "KeyCtrlShiftRight" :> "C-S-Right" @@ "KeyHome" :> "Home" @@
  "KeyEnd" :> "End" @@ "KeyShiftHome" :> "S-Home" @@
  "KeyShiftEnd" :> "S-End" @@ "KeyCtrlHome" :> "C-Home" @@
  "KeyCtrlEnd" :> "C-End" @@ "KeyCtrlShiftHome" :> "C-S-Home" @@
  "KeyCtrlShiftEnd" :> "C-S-End" @@ "KeyInsert" :> "IC" @@
  "KeyDelete" :> "DC" @@ "KeyPgUp" :> "PPage" @@
  "KeyPgDown" :> "NPage" @@ "KeyCtrlPgUp" :> "C-PPage" @@
  "KeyCtrlPgDown" :> "C-NPage" @@ "KeyF1" :> "F1" @@ "KeyF2" :> "F2" @@
  "KeyF3" :> "F3" @@ "KeyF4" :> "F4" @@ "KeyF5" :> "F5" @@
  "KeyF6" :> "F6" @@ "KeyF7" :> "F7" @@ "KeyF8" :> "F8" @@
  "KeyF9" :> "F9" @@ "KeyF10" :> "F10" @@ "KeyF11" :> "F11" @@
  "KeyF12" :> "F12" @@ "KeyF13" :> "F13" @@ "KeyF14" :> "F14" @@
  "KeyF15" :> "F15" @@ "KeyF16" :> "F16" @@ "KeyF17" :> "F17" @@
  "KeyF18" :> "F18" @@ "KeyF19" :> "F19" @@ "KeyF20" :> "F20" @@
  "KeyCtrlA" :> "C-a" @@ "KeyCtrlB" :> "C-b" @@ "KeyCtrlC" :> "C-c" @@
  "KeyCtrlD" :> "C-d" @@ "KeyCtrlE" :> "C-e" @@ "KeyCtrlF" :> "C-f" @@
  "KeyCtrlG" :> "C-g" @@ "KeyCtrlH" :> "C-h" @@ "KeyCtrlJ" :> "C-j" @@
  "KeyCtrlK" :> "C-k" @@ "KeyCtrlL" :> "C-l" @@ "KeyCtrlN" :> "C-n" @@
  "KeyCtrlO" :> "C-o" @@ "KeyCtrlP" :> "C-p" @@ "KeyCtrlQ" :> "C-q" @@
  "KeyCtrlR" :> "C-r" @@ "KeyCtrlS" :> "C-s" @@ "KeyCtrlT" :> "C-t" @@
  "KeyCtrlU" :> "C-u" @@ "KeyCtrlV" :> "C-v" @@ "KeyCtrlW" :> "C-w" @@
  "KeyCtrlX" :> "C-x" @@ "KeyCtrlY" :> "C-y" @@ "KeyCtrlZ" :> "C-z"

keyBytes ==
  "KeyEnter" :> 13 @@ "KeyTab" :> 9 @@ "KeyBackspace" :> 127 @@
  "KeyEscape" :> 27 @@ "KeySpace" :> 32 @@ "KeyCtrlA" :> 1 @@
  "KeyCtrlB" :> 2 @@ "KeyCtrlC" :> 3 @@ "KeyCtrlD" :> 4 @@
  "KeyCtrlE" :> 5 @@ "KeyCtrlF" :> 6 @@ "KeyCtrlG" :> 7 @@
  "KeyCtrlH" :> 8 @@ "KeyCtrlJ" :> 10 @@ "KeyCtrlK" :> 11 @@
  "KeyCtrlL" :> 12 @@ "KeyCtrlN" :> 14 @@ "KeyCtrlO" :> 15 @@
  "KeyCtrlP" :> 16 @@ "KeyCtrlQ" :> 17 @@ "KeyCtrlR" :> 18 @@
  "KeyCtrlS" :> 19 @@ "KeyCtrlT" :> 20 @@ "KeyCtrlU" :> 21 @@
  "KeyCtrlV" :> 22 @@ "KeyCtrlW" :> 23 @@ "KeyCtrlX" :> 24 @@
  "KeyCtrlY" :> 25 @@ "KeyCtrlZ" :> 26

keySequences ==
  "KeyUp" :> <<27, 91, 65>> @@ "KeyDown" :> <<27, 91, 66>> @@
  "KeyRight" :> <<27, 91, 67>> @@ "KeyLeft" :> <<27, 91, 68>> @@
  "KeyShiftUp" :> <<27, 91, 49, 59, 50, 65>> @@
  "KeyShiftDown" :> <<27, 91, 49, 59, 50, 66>> @@
  "KeyShiftRight" :> <<27, 91, 49, 59, 50, 67>> @@
  "KeyShiftLeft" :> <<27, 91, 49, 59, 50, 68>> @@
  "KeyCtrlUp" :> <<27, 91, 49, 59, 53, 65>> @@
  "KeyCtrlDown" :> <<27, 91, 49, 59, 53, 66>> @@
  "KeyCtrlRight" :> <<27, 91, 49, 59, 53, 67>> @@
  "KeyCtrlLeft" :> <<27, 91, 49, 59, 53, 68>> @@
  "KeyCtrlShiftUp" :> <<27, 91, 49, 59, 54, 65>> @@
  "KeyCtrlShiftDown" :> <<27, 91, 49, 59, 54, 66>> @@
  "KeyCtrlShiftRight" :> <<27, 91, 49, 59, 54, 67>> @@
  "KeyCtrlShiftLeft" :> <<27, 91, 49, 59, 54, 68>> @@
  "KeyHome" :> <<27, 91, 72>> @@ "KeyEnd" :> <<27, 91, 70>> @@
  "KeyShiftHome" :> <<27, 91, 49, 59, 50, 72>> @@
  "KeyShiftEnd" :> <<27, 91, 49, 59, 50, 70>> @@
  "KeyCtrlHome" :> <<27, 91, 49, 59, 53, 72>> @@
  "KeyCtrlEnd" :> <<27, 91, 49, 59, 53, 70>> @@
  "KeyCtrlShiftHome" :> <<27, 91, 49, 59, 54, 72>> @@
  "KeyCtrlShiftEnd" :> <<27, 91, 49, 59, 54, 70>> @@
  "KeyInsert" :> <<27, 91, 50, 126>> @@
  "KeyDelete" :> <<27, 91, 51, 126>> @@
  "KeyPgUp" :> <<27, 91, 53, 126>> @@
  "KeyPgDown" :> <<27, 91, 54, 126>> @@
  "KeyCtrlPgUp" :> <<27, 91, 53, 59, 53, 126>> @@
  "KeyCtrlPgDown" :> <<27, 91, 54, 59, 53, 126>> @@
  "KeyF1" :> <<27, 79, 80>> @@ "KeyF2" :> <<27, 79, 81>> @@
  "KeyF3" :> <<27, 79, 82>> @@ "KeyF4" :> <<27, 79, 83>> @@
  "KeyF5" :> <<27, 91, 49, 53, 126>> @@
  "KeyF6" :> <<27, 91, 49, 55, 126>> @@
  "KeyF7" :> <<27, 91, 49, 56, 126>> @@
  "KeyF8" :> <<27, 91, 49, 57, 126>> @@
  "KeyF9" :> <<27, 91, 50, 48, 126>> @@
  "KeyF10" :> <<27, 91, 50, 49, 126>> @@
  "KeyF11" :> <<27, 91, 50, 51, 126>> @@
  "KeyF12" :> <<27, 91, 50, 52, 126>> @@
  "KeyF13" :> <<27, 91, 50, 53, 126>> @@
  "KeyF14" :> <<27, 91, 50, 54, 126>> @@
  "KeyF15" :> <<27, 91, 50, 56, 126>> @@
  "KeyF16" :> <<27, 91, 50, 57, 126>> @@
  "KeyF17" :> <<27, 91, 51, 49, 126>> @@
  "KeyF18" :> <<27, 91, 51, 50, 126>> @@
  "KeyF19" :> <<27, 91, 51, 51, 126>> @@
  "KeyF20" :> <<27, 91, 51, 52, 126>>

(* The key types the source names, and one of the library's that it does
   not name (ctrl+\). *)
KeyTypes == DOMAIN tmuxKeyNames \cup {"KeyRunes", "KeyCtrlBackslash"}
RuneInputs == {<<97>>, <<97, 98>>}
KeyMsgs ==
  [Type : {"KeyRunes"}, Alt : BOOLEAN, Runes : RuneInputs]
    \cup [Type : KeyTypes \ {"KeyRunes"}, Alt : BOOLEAN, Runes : {<<>>}]

ESC == 27
base == <<"-L", "atc", "send-keys", "-t", "feat-a">>
NoArgs == [words |-> <<>>, literal |-> <<>>]
Literal(bytes) == [words |-> base \o <<"-l">>, literal |-> bytes]
Named(words) == [words |-> base \o words, literal |-> <<>>]

keyByte(kt) == IF kt \in DOMAIN keyBytes THEN keyBytes[kt] ELSE 0
keySequence(kt) ==
  IF kt \in DOMAIN keySequences THEN keySequences[kt] ELSE <<>>
tmuxKey(kt) == IF kt \in DOMAIN tmuxKeyNames THEN tmuxKeyNames[kt] ELSE ""

(* Alt as a separate Escape argument before the key's name. *)
keyMsgToTmuxArgsSeparate(msg) ==
  IF msg.Type = "KeyRunes" /\ msg.Alt THEN Literal(<<ESC>> \o msg.Runes)
  ELSE IF msg.Type = "KeyRunes" THEN Literal(msg.Runes)
  ELSE IF tmuxKey(msg.Type) = "" THEN NoArgs
  ELSE IF msg.Alt THEN Named(<<"Escape", tmuxKey(msg.Type)>>)
  ELSE Named(<<tmuxKey(msg.Type)>>)

keyMsgToTmuxArgs(msg) ==
  IF msg.Type = "KeyRunes" /\ msg.Alt THEN Literal(<<ESC>> \o msg.Runes)
  ELSE IF msg.Type = "KeyRunes" THEN Literal(msg.Runes)
  ELSE IF msg.Alt /\ keyByte(msg.Type) # 0
    THEN Literal(<<ESC, keyByte(msg.Type)>>)
  ELSE IF tmuxKey(msg.Type) = "" THEN NoArgs
  ELSE IF msg.Alt /\ keySequence(msg.Type) # <<>>
    THEN Literal(<<ESC>> \o keySequence(msg.Type))
  ELSE Named(<<tmuxKey(msg.Type)>>)

(* exec.Command("tmux", args...).Run() unless args is nil. *)
SendKeys ==
  /\ call.fn = "SendKeys"
  /\ ret = NoCall
  /\ LET args == keyMsgToTmuxArgs(call.msg) IN
       ret' = [fn |-> "SendKeys", args |-> args,
               invocations |-> IF args = NoArgs THEN 0 ELSE 1]
  /\ UNCHANGED <<termVars, svcVars, tuiVars, sendKeysCalls, call>>

InitKeys ==
  /\ InitTerm /\ ~muxExists /\ InitSvc /\ InitTui
  /\ call \in {[fn |-> "SendKeys", msg |-> msg] : msg \in KeyMsgs}
  /\ ret = NoCall

NextKeys == SendKeys
SpecKeys == InitKeys /\ [][NextKeys]_vars

(* C22: every key message makes SendKeys run tmux exactly once; runes go as
   one literal, every other kind as one named key or, with alt, as one
   literal that starts with ESC. *)
EveryKeyIsOneInvocation ==
  ret.fn = "SendKeys" =>
    LET msg == call.msg IN
    /\ ret.invocations = 1
    /\ msg.Type = "KeyRunes" =>
         ret.args = Literal(IF msg.Alt THEN <<ESC>> \o msg.Runes
                            ELSE msg.Runes)
    /\ (msg.Type # "KeyRunes" /\ ~msg.Alt) =>
         /\ Len(ret.args.words) = Len(base) + 1
         /\ ret.args.literal = <<>>
    /\ (msg.Type # "KeyRunes" /\ msg.Alt) =>
         /\ ret.args.words = base \o <<"-l">>
         /\ Len(ret.args.literal) >= 2
         /\ ret.args.literal[1] = ESC

(* C23: alt with a key type that keyByte or keySequence knows makes the
   arguments end with "-l" and one literal, ESC followed by the key's
   encoding; Alt+Enter is ESC CR and Alt+Up is ESC ESC [ A. *)
AltIsOneLiteral ==
  (ret.fn = "SendKeys" /\ call.msg.Alt /\ call.msg.Type # "KeyRunes") =>
    LET kt == call.msg.Type IN
    /\ keyByte(kt) # 0 => ret.args = Literal(<<ESC, keyByte(kt)>>)
    /\ (keyByte(kt) = 0 /\ keySequence(kt) # <<>>) =>
         ret.args = Literal(<<ESC>> \o keySequence(kt))
    /\ kt = "KeyEnter" => ret.args.literal = <<27, 13>>
    /\ kt = "KeyUp" => ret.args.literal = <<27, 27, 91, 65>>
    /\ (keyByte(kt) # 0 \/ keySequence(kt) # <<>>) =>
         /\ ret.invocations = 1
         /\ ret.args.words[Len(ret.args.words)] = "-l"
         /\ tmuxKey(kt) \notin {ret.args.words[i] :
                                   i \in 1..Len(ret.args.words)}

(* SendKeys has returned for Alt+Up and for Alt+Ctrl-A. *)
AltKeySent ==
  /\ ret.fn = "SendKeys"
  /\ call.msg.Alt
  /\ call.msg.Type \in {"KeyUp", "KeyCtrlA"}

(***************************************************************************)
(* Strings are sequences of bytes.  strconv.Itoa, strconv.Atoi (a sign is  *)
(* accepted, an empty string or any other byte is an error),               *)
(* strings.Split and strings.Join on ';'.                                  *)
(***************************************************************************)
RECURSIVE Itoa(_)
Itoa(n) ==
  IF n < 0 THEN <<45>> \o Itoa(0 - n)
  ELSE IF n < 10 THEN <<48 + n>>
  ELSE Itoa(n \div 10) \o <<48 + (n % 10)>>

IsDigit(b) == b >= 48 /\ b <= 57

RECURSIVE DigitsValue(_)
DigitsValue(ds) ==
  IF ds = <<>> THEN 0
  ELSE 10 * DigitsValue(SubSeq(ds, 1, Len(ds) - 1)) + (ds[Len(ds)] - 48)

Atoi(p) ==
  LET signed == p # <<>> /\ p[1] \in {43, 45}
      ds == IF signed THEN Tail(p) ELSE p
      ok == ds # <<>> /\ \A i \in 1..Len(ds) : IsDigit(ds[i])
  IN [ok |-> ok,
      val |-> IF ~ok THEN 0
              ELSE IF signed /\ p[1] = 45 THEN 0 - DigitsValue(ds)
              ELSE DigitsValue(ds)]

RECURSIVE Split(_, _)
Split(str, sep) ==
  IF \E i \in 1..Len(str) : str[i] = sep
  THEN LET i == CHOOSE k \in 1..Len(str) :
                  str[k] = sep /\ \A j \in 1..(k - 1) : str[j] # sep
       IN <<SubSeq(str, 1, i - 1)>>
            \o Split(SubSeq(str, i + 1, Len(str)), sep)
  ELSE <<str>>

RECURSIVE Join(_, _)
Join(parts, sep) ==
  IF parts = <<>> THEN <<>>
  ELSE IF Len(parts) = 1 THEN parts[1]
  ELSE parts[1] \o <<sep>> \o Join(Tail(parts), sep)

(***************************************************************************)
(* color256ToRGB, cubeValue and ansi16Colors; a colour is <<r, g, b>>.     *)
(***************************************************************************)
ansi16Colors ==
  <<<<0, 0, 0>>, <<205, 0, 0>>, <<0, 205, 0>>, <<205, 205, 0>>,
    <<0, 0, 238>>, <<205, 0, 205>>, <<0, 205, 205>>, <<229, 229, 229>>,
    <<127, 127, 127>>, <<255, 0, 0>>, <<0, 255, 0>>, <<255, 255, 0>>,
    <<92, 92, 255>>, <<255, 0, 255>>, <<0, 255, 255>>, <<255, 255, 255>>>>

(* A cube with evenly spaced channel values. *)
cubeValueEven(i) == i * 51

cubeValue(i) == IF i = 0 THEN 0 ELSE 55 + i * 40

color256ToRGB(n) ==
  IF n < 0 \/ n > 255 THEN <<0, 0, 0>>
  ELSE IF n < 16 THEN ansi16Colors[n + 1]
  ELSE IF n < 232
    THEN LET k == n - 16 IN
         <<cubeValue(k \div 36), cubeValue((k \div 6) % 6), cubeValue(k % 6)>>
  ELSE LET v == 8 + (n - 232) * 10 IN <<v, v, v>>

CallColor256ToRGB ==
  /\ call.fn = "color256ToRGB"
  /\ ret = NoCall
  /\ ret' = [fn |-> "color256ToRGB", rgb |-> color256ToRGB(call.n)]
  /\ UNCHANGED <<termVars, svcVars, tuiVars, sendKeysCalls, call>>

InitColor ==
  /\ InitTerm /\ ~muxExists /\ InitSvc /\ InitTui
  /\ call \in {[fn |-> "color256ToRGB", n |-> n] : n \in 0..255}
  /\ ret = NoCall

NextColor == CallColor256ToRGB
SpecColor == InitColor /\ [][NextColor]_vars

(* The xterm defaults: the 16-colour palette and the six channel values of
   the colour cube. *)
XtermPalette ==
  [n \in 0..15 |->
     CASE n = 0 -> <<0, 0, 0>>        [] n = 1 -> <<205, 0, 0>>
       [] n = 2 -> <<0, 205, 0>>      [] n = 3 -> <<205, 205, 0>>
       [] n = 4 -> <<0, 0, 238>>      [] n = 5 -> <<205, 0, 205>>
       [] n = 6 -> <<0, 205, 205>>    [] n = 7 -> <<229, 229, 229>>
       [] n = 8 -> <<127, 127, 127>>  [] n = 9 -> <<255, 0, 0>>
       [] n = 10 -> <<0, 255, 0>>     [] n = 11 -> <<255, 255, 0>>
       [] n = 12 -> <<92, 92, 255>>   [] n = 13 -> <<255, 0, 255>>
       [] n = 14 -> <<0, 255, 255>>   [] n = 15 -> <<255, 255, 255>>]
XtermCubeLevels == <<0, 95, 135, 175, 215, 255>>

(* C26: for every index N in 0..255 color256ToRGB(N) is the xterm colour:
   the palette entry for 0..15, the cube entry with channel values 0, 95,
   135, 175, 215, 255 for 16..231, and the grey 8 + 10 (N - 232) for
   232..255; 196 is (255,0,0), 232 is (8,8,8), 240 is (88,88,88) and 1 is
   (205,0,0). *)
Color256MatchesXterm ==
  ret.fn = "color256ToRGB" =>
    LET n == call.n
        k == n - 16
    IN
    /\ n < 16 => ret.rgb = XtermPalette[n]
    /\ (n >= 16 /\ n < 232) =>
         ret.rgb = <<XtermCubeLevels[(k \div 36) + 1],
                     XtermCubeLevels[((k \div 6) % 6) + 1],
                     XtermCubeLevels[(k % 6) + 1]>>
    /\ n >= 232 =>
         ret.rgb = <<8 + 10 * (n - 232), 8 + 10 * (n - 232),
                     8 + 10 * (n - 232)>>
    /\ n = 196 => ret.rgb = <<255, 0, 0>>
    /\ n = 232 => ret.rgb = <<8, 8, 8>>
    /\ n = 240 => ret.rgb = <<88, 88, 88>>
    /\ n = 1 => ret.rgb = <<205, 0, 0>>

(* color256ToRGB has returned for an index of the cube. *)
CubeColourConverted ==
  /\ ret.fn = "color256ToRGB"
  /\ call.n = 110

(***************************************************************************)
(* dimANSIColors, transformSGR and dimRGB.  A factor is the fraction       *)
(* num/den; for the factors of Factors, int(float64(c) * factor) is        *)
(* (c * num) \div den for every channel c in 0..255.                       *)
(***************************************************************************)
Factors == {[num |-> 0, den |-> 1], [num |-> 2, den |-> 5],
            [num |-> 1, den |-> 2], [num |-> 1, den |-> 1]}

Scale(c, factor) == (c * factor.num) \div factor.den

(* A dimRGB that leaves the colour as it is. *)
keepRGB(rgb, factor) == rgb

dimRGB(rgb, factor) ==
  <<Scale(rgb[1], factor), Scale(rgb[2], factor), Scale(rgb[3], factor)>>

ItoaAll(ns) == [i \in 1..Len(ns) |-> Itoa(ns[i])]

(* An SGR sequence with the given parameter bytes. *)
CSI == <<27, 91>>
SGR(params) == CSI \o params \o <<109>>
Params(ns) == Join(ItoaAll(ns), 59)

dimDefault == SGR(Params(<<38, 2, 91, 100, 109>>))

(* 38 or 48, "2", and the dimmed channels. *)
Dimmed(layer, rgb, factor) == <<layer, Itoa(2)>> \o ItoaAll(dimRGB(rgb, factor))

AtoiAt(parts, i) == Atoi(parts[i]).val

RECURSIVE transformParts(_, _, _)
transformParts(parts, i, factor) ==
  IF i > Len(parts) THEN <<>>
  ELSE
    LET p == parts[i]
        a == Atoi(p)
        code == a.val
        n == Len(parts)
    IN
    IF ~a.ok THEN <<p>> \o transformParts(parts, i + 1, factor)
    ELSE IF code = 0
      THEN ItoaAll(<<0, 38, 2, 91, 100, 109>>)
             \o transformParts(parts, i + 1, factor)
    ELSE IF code = 39
      THEN ItoaAll(<<38, 2, 91, 100, 109>>)
             \o transformParts(parts, i + 1, factor)
    ELSE IF code = 49 THEN <<p>> \o transformParts(parts, i + 1, factor)
    ELSE IF code \in {38, 48} /\ i < n
      THEN IF AtoiAt(parts, i + 1) = 2 /\ i + 4 <= n
             THEN Dimmed(p, <<AtoiAt(parts, i + 2), AtoiAt(parts, i + 3),
                              AtoiAt(parts, i + 4)>>, factor)
                    \o transformParts(parts, i + 5, factor)
           ELSE IF AtoiAt(parts, i + 1) = 5 /\ i + 2 <= n
             THEN Dimmed(p, color256ToRGB(AtoiAt(parts, i + 2)), factor)
                    \o transformParts(parts, i + 3, factor)
           ELSE <<p>> \o transformParts(parts, i + 1, factor)
    ELSE IF code >= 30 /\ code <= 37
      THEN Dimmed(Itoa(38), ansi16Colors[code - 30 + 1], factor)
             \o transformParts(parts, i + 1, factor)
    ELSE IF code >= 40 /\ code <= 47
      THEN Dimmed(Itoa(48), ansi16Colors[code - 40 + 1], factor)
             \o transformParts(parts, i + 1, factor)
    ELSE IF code >= 90 /\ code <= 97
      THEN Dimmed(Itoa(38), ansi16Colors[code - 90 + 8 + 1], factor)
             \o transformParts(parts, i + 1, factor)
    ELSE IF code >= 100 /\ code <= 107
      THEN Dimmed(Itoa(48), ansi16Colors[code - 100 + 8 + 1], factor)
             \o transformParts(parts, i + 1, factor)
    ELSE <<p>> \o transformParts(parts, i + 1, factor)

transformSGR(params, factor) ==
  IF params = <<>> THEN Params(<<0, 38, 2, 91, 100, 109>>)
  ELSE Join(transformParts(Split(params, 59), 1, factor), 59)

(* The walks over an escape sequence that dimANSIColors and
   applyHighlightToLine share; each gives the index after the sequence. *)
RECURSIVE oscEnd(_, _)
oscEnd(str, j) ==
  IF j > Len(str) THEN j
  ELSE IF str[j] = 7 THEN j + 1
  ELSE IF str[j] = 27 /\ j + 1 <= Len(str) /\ str[j + 1] = 92 THEN j + 2
  ELSE oscEnd(str, j + 1)

(* The first index from j on whose byte is outside lo..hi. *)
RECURSIVE skipBytes(_, _, _, _)
skipBytes(str, j, lo, hi) ==
  IF j <= Len(str) /\ str[j] >= lo /\ str[j] <= hi
  THEN skipBytes(str, j + 1, lo, hi)
  ELSE j

nonCsiEnd(str, j) ==
  IF str[j] >= 32 /\ str[j] <= 47
  THEN LET k == skipBytes(str, j, 32, 47) IN
       IF k <= Len(str) THEN k + 1 ELSE k
  ELSE j + 1

RECURSIVE dimFrom(_, _, _)
dimFrom(str, i, factor) ==
  IF i > Len(str) THEN <<>>
  ELSE IF str[i] = 10 THEN <<10>> \o dimDefault \o dimFrom(str, i + 1, factor)
  ELSE IF str[i] # 27 THEN <<str[i]>> \o dimFrom(str, i + 1, factor)
  ELSE IF i + 1 > Len(str) THEN <<str[i]>>
  ELSE IF str[i + 1] = 93
    THEN LET e == oscEnd(str, i + 2) IN
         SubSeq(str, i, e - 1) \o dimFrom(str, e, factor)
  ELSE IF str[i + 1] # 91
    THEN LET e == nonCsiEnd(str, i + 1) IN
         SubSeq(str, i, e - 1) \o dimFrom(str, e, factor)
  ELSE
    LET pe == skipBytes(str, i + 2, 32, 63) IN
    IF pe > Len(str) THEN SubSeq(str, i, Len(str))
    ELSE IF str[pe] # 109
      THEN SubSeq(str, i, pe) \o dimFrom(str, pe + 1, factor)
    ELSE SGR(transformSGR(SubSeq(str, i + 2, pe - 1), factor))
           \o dimFrom(str, pe + 1, factor)

dimANSIColors(str, factor) ==
  IF Len(str) = 0 THEN str ELSE dimDefault \o dimFrom(str, 1, factor)

(***************************************************************************)
(* stripANSI: every leftmost match of ESC [ [0-9;]* letter or              *)
(* ESC ( letter is removed.                                                *)
(***************************************************************************)
IsLetter(b) == (b >= 65 /\ b <= 90) \/ (b >= 97 /\ b <= 122)

RECURSIVE skipParams(_, _)
skipParams(str, j) ==
  IF j <= Len(str) /\ (IsDigit(str[j]) \/ str[j] = 59)
  THEN skipParams(str, j + 1)
  ELSE j

(* The index after the match of ansiRegex that starts at i, or i. *)
ansiRegexEnd(str, i) ==
  IF str[i] # 27 \/ i + 1 > Len(str) THEN i
  ELSE IF str[i + 1] = 91
    THEN LET k == skipParams(str, i + 2) IN
         IF k <= Len(str) /\ IsLetter(str[k]) THEN k + 1 ELSE i
  ELSE IF str[i + 1] = 40 /\ i + 2 <= Len(str) /\ IsLetter(str[i + 2])
    THEN i + 3
  ELSE i

RECURSIVE stripFrom(_, _)
stripFrom(str, i) ==
  IF i > Len(str) THEN <<>>
  ELSE LET e == ansiRegexEnd(str, i) IN
       IF e > i THEN stripFrom(str, e)
       ELSE <<str[i]>> \o stripFrom(str, i + 1)

stripANSI(str) == stripFrom(str, 1)

(***************************************************************************)
(* applyHighlightToLine with ansiColorState, updateColorState,             *)
(* lightenRGB, emitHighlightSGR and emitRestoreSGR.  Lines are ASCII, so   *)
(* utf8.DecodeRuneInString gives one byte as one rune.                     *)
(***************************************************************************)
ansiColorState ==
  [fgSet |-> FALSE, fg |-> <<0, 0, 0>>, bgSet |-> FALSE, bg |-> <<0, 0, 0>>]

SetFg(state, rgb) == [state EXCEPT !.fgSet = TRUE, !.fg = rgb]
SetBg(state, rgb) == [state EXCEPT !.bgSet = TRUE, !.bg = rgb]
SetLayer(state, code, rgb) ==
  IF code = 38 THEN SetFg(state, rgb) ELSE SetBg(state, rgb)

RECURSIVE updateParts(_, _, _)
updateParts(state, parts, i) ==
  IF i > Len(parts) THEN state
  ELSE
    LET a == Atoi(parts[i])
        code == a.val
        n == Len(parts)
    IN
    IF ~a.ok THEN updateParts(state, parts, i + 1)
    ELSE IF code = 0
      THEN updateParts([state EXCEPT !.fgSet = FALSE, !.bgSet = FALSE],
                       parts, i + 1)
    ELSE IF code = 39
      THEN updateParts([state EXCEPT !.fgSet = FALSE], parts, i + 1)
    ELSE IF code = 49
      THEN updateParts([state EXCEPT !.bgSet = FALSE], parts, i + 1)
    ELSE IF code \in {38, 48} /\ i < n
      THEN IF AtoiAt(parts, i + 1) = 2 /\ i + 4 <= n
             THEN updateParts(
                    SetLayer(state, code,
                             <<AtoiAt(parts, i + 2), AtoiAt(parts, i + 3),
                               AtoiAt(parts, i + 4)>>),
                    parts, i + 5)
           ELSE IF AtoiAt(parts, i + 1) = 5 /\ i + 2 <= n
             THEN updateParts(
                    SetLayer(state, code,
                             color256ToRGB(AtoiAt(parts, i + 2))),
                    parts, i + 3)
           ELSE updateParts(state, parts, i + 1)
    ELSE IF code >= 30 /\ code <= 37
      THEN updateParts(SetFg(state, ansi16Colors[code - 30 + 1]),
                       parts, i + 1)
    ELSE IF code >= 40 /\ code <= 47
      THEN updateParts(SetBg(state, ansi16Colors[code - 40 + 1]),
                       parts, i + 1)
    ELSE IF code >= 90 /\ code <= 97
      THEN updateParts(SetFg(state, ansi16Colors[code - 90 + 8 + 1]),
                       parts, i + 1)
    ELSE IF code >= 100 /\ code <= 107
      THEN updateParts(SetBg(state, ansi16Colors[code - 100 + 8 + 1]),
                       parts, i + 1)
    ELSE updateParts(state, parts, i + 1)

updateColorState(state, paramStr) ==
  IF paramStr = <<>>
  THEN [state EXCEPT !.fgSet = FALSE, !.bgSet = FALSE]
  ELSE updateParts(state, Split(paramStr, 59), 1)

(* Blending toward black instead of white. *)
darkenRGB(rgb, factor) ==
  <<Scale(rgb[1], factor), Scale(rgb[2], factor), Scale(rgb[3], factor)>>

Lighten(c, factor) == c + Scale(255 - c, factor)
lightenRGB(rgb, factor) ==
  <<Lighten(rgb[1], factor), Lighten(rgb[2], factor),
    Lighten(rgb[3], factor)>>

emitHighlightSGR(state, factor) ==
  LET fg == IF state.fgSet THEN state.fg ELSE <<229, 229, 229>>
      bg == IF state.bgSet THEN state.bg ELSE <<0, 0, 0>>
  IN SGR(Params(<<38, 2>> \o lightenRGB(fg, factor)))
       \o SGR(Params(<<48, 2>> \o lightenRGB(bg, factor)))

emitRestoreSGR(state) ==
  (IF state.fgSet THEN SGR(Params(<<38, 2>> \o state.fg))
   ELSE SGR(Params(<<39>>)))
    \o (IF state.bgSet THEN SGR(Params(<<48, 2>> \o state.bg))
        ELSE SGR(Params(<<49>>)))

Spaces(n) == [i \in 1..n |-> 32]

(* What follows the loop: the padding up to endCol and the restore. *)
highlightTail(visCol, inHighlight, state, endCol, factor) ==
  LET pad == endCol >= visCol IN
  (IF pad /\ ~inHighlight THEN emitHighlightSGR(state, factor) ELSE <<>>)
    \o (IF pad THEN Spaces(endCol - visCol + 1) ELSE <<>>)
    \o (IF inHighlight \/ pad THEN emitRestoreSGR(state) ELSE <<>>)

RECURSIVE highlightFrom(_, _, _, _, _, _, _, _)
highlightFrom(line, i, visCol, inHighlight, state, startCol, endCol, factor) ==
  IF i > Len(line)
    THEN highlightTail(visCol, inHighlight, state, endCol, factor)
  ELSE IF line[i] = 27
    THEN
      IF i + 1 > Len(line)
        THEN <<line[i]>>
               \o highlightTail(visCol, inHighlight, state, endCol, factor)
      ELSE IF line[i + 1] = 93
        THEN LET e == oscEnd(line, i + 2) IN
             SubSeq(line, i, e - 1)
               \o highlightFrom(line, e, visCol, inHighlight, state,
                                startCol, endCol, factor)
      ELSE IF line[i + 1] # 91
        THEN LET e == nonCsiEnd(line, i + 1) IN
             SubSeq(line, i, e - 1)
               \o highlightFrom(line, e, visCol, inHighlight, state,
                                startCol, endCol, factor)
      ELSE
        LET pe == skipBytes(line, i + 2, 32, 63) IN
        IF pe > Len(line)
          THEN SubSeq(line, i, Len(line))
                 \o highlightTail(visCol, inHighlight, state, endCol,
                                  factor)
        ELSE IF line[pe] = 109
          THEN LET after ==
                     updateColorState(state, SubSeq(line, i + 2, pe - 1))
               IN SubSeq(line, i, pe)
                    \o (IF inHighlight THEN emitHighlightSGR(after, factor)
                        ELSE <<>>)
                    \o highlightFrom(line, pe + 1, visCol, inHighlight,
                                     after, startCol, endCol, factor)
        ELSE SubSeq(line, i, pe)
               \o highlightFrom(line, pe + 1, visCol, inHighlight, state,
                                startCol, endCol, factor)
  ELSE
    LET enter == ~inHighlight /\ visCol >= startCol /\ visCol <= endCol
        leave == (inHighlight \/ enter) /\ visCol + 1 > endCol
    IN (IF enter THEN emitHighlightSGR(state, factor) ELSE <<>>)
         \o <<line[i]>>
         \o (IF leave THEN emitRestoreSGR(state) ELSE <<>>)
         \o highlightFrom(line, i + 1, visCol + 1,
                          (inHighlight \/ enter) /\ ~leave, state,
                          startCol, endCol, factor)

applyHighlightToLine(line, startCol, endCol, lightenFactor) ==
  highlightFrom(line, 1, 0, FALSE, ansiColorState, startCol, endCol,
                lightenFactor)

(***************************************************************************)
(* SpecAnsi: one call of dimANSIColors or of applyHighlightToLine.  A      *)
(* line is made of at most MaxSegs pieces: a letter, SGRs (a basic colour, *)
(* bold with a 24-bit colour, a reset, a signed parameter), an OSC title,  *)
(* a charset selection, an erase-line CSI and, for dimANSIColors, a        *)
(* newline.                                                                *)
(***************************************************************************)
LineSegs ==
  {<<97>>, SGR(Params(<<31>>)), SGR(Params(<<1, 38, 2, 100, 150, 200>>)),
   SGR(Params(<<0>>)), SGR(<<43, 48>>), <<27, 93, 48, 59, 116, 7>>,
   <<27, 40, 66>>, CSI \o <<75>>}

RECURSIVE Concat(_)
Concat(segs) == IF segs = <<>> THEN <<>> ELSE segs[1] \o Concat(Tail(segs))

LinesOf(segs) ==
  {Concat(ss) : ss \in UNION {[1..k -> segs] : k \in 0..MaxSegs}}

Lines == LinesOf(LineSegs)
Texts == LinesOf(LineSegs \cup {<<10>>})

(* One colour SGR of each form, between optional bold and underline. *)
BasicCodes == (30..37) \cup (40..47) \cup (90..97) \cup (100..107)
Indexes == {0, 1, 15, 16, 110, 196, 231, 232, 240, 255}
Colours == {<<0, 0, 0>>, <<1, 2, 3>>, <<100, 150, 200>>, <<255, 0, 0>>,
            <<255, 255, 255>>}
ColourForms ==
  {<<c>> : c \in BasicCodes}
    \cup {<<l, 5, n>> : l \in {38, 48}, n \in Indexes}
    \cup {<<l, 2>> \o rgb : l \in {38, 48}, rgb \in Colours}
SgrLine(pre, form, post) == SGR(Params(pre \o form \o post)) \o <<97>>
SgrLines ==
  {SgrLine(pre, form, post) :
     pre \in {<<>>, <<1>>}, form \in ColourForms, post \in {<<>>, <<4>>}}

Half == [num |-> 1, den |-> 2]
TwoFifths == [num |-> 2, den |-> 5]

DimCalls ==
  {[fn |-> "dimANSIColors", line |-> t, factor |-> TwoFifths] : t \in Texts}
    \cup {[fn |-> "dimANSIColors", line |-> l, factor |-> f] :
            l \in SgrLines, f \in Factors}

HighlightCalls ==
  {[fn |-> "applyHighlightToLine", line |-> l, startCol |-> a,
    endCol |-> b, factor |-> Half] :
     l \in Lines, a \in 0..2, b \in 0..3}

CallDimANSIColors ==
  /\ call.fn = "dimANSIColors"
  /\ ret = NoCall
  /\ ret' = [fn |-> "dimANSIColors",
             out |-> dimANSIColors(call.line, call.factor)]
  /\ UNCHANGED <<termVars, svcVars, tuiVars, sendKeysCalls, call>>

CallApplyHighlightToLine ==
  /\ call.fn = "applyHighlightToLine"
  /\ ret = NoCall
  /\ ret' = [fn |-> "applyHighlightToLine",
             out |-> applyHighlightToLine(call.line, call.startCol,
                                          call.endCol, call.factor)]
  /\ UNCHANGED <<termVars, svcVars, tuiVars, sendKeysCalls, call>>

InitAnsi ==
  /\ InitTerm /\ ~muxExists /\ InitSvc /\ InitTui
  /\ call \in DimCalls \cup HighlightCalls
  /\ ret = NoCall

NextAnsi == CallDimANSIColors \/ CallApplyHighlightToLine
SpecAnsi == InitAnsi /\ [][NextAnsi]_vars

(* C24: removing the escape sequences from the output of dimANSIColors or
   of applyHighlightToLine gives the same visible text as removing them
   from the input line. *)
StripIsPreserved ==
  ret.fn \in {"dimANSIColors", "applyHighlightToLine"} =>
    stripANSI(ret.out) = stripANSI(call.line)

(* The source colour of a colour form by the xterm rules, and its layer:
   38 for the foreground, 48 for the background. *)
XtermRGB(n) ==
  IF n < 16 THEN XtermPalette[n]
  ELSE IF n < 232
    THEN <<XtermCubeLevels[((n - 16) \div 36) + 1],
           XtermCubeLevels[(((n - 16) \div 6) % 6) + 1],
           XtermCubeLevels[((n - 16) % 6) + 1]>>
  ELSE <<8 + 10 * (n - 232), 8 + 10 * (n - 232), 8 + 10 * (n - 232)>>

FormRGB(form) ==
  IF Len(form) = 5 THEN <<form[3], form[4], form[5]>>
  ELSE IF Len(form) = 3 THEN XtermRGB(form[3])
  ELSE IF form[1] < 90 THEN XtermPalette[form[1] % 10]
  ELSE XtermPalette[(form[1] % 10) + 8]

FormLayer(form) ==
  IF form[1] \in (30..38) \cup (90..97) THEN 38 ELSE 48

(* C27: dimANSIColors rewrites a colour SGR of any form as the 24-bit SGR
   of the same layer whose channels are the source channels times the
   factor, truncated, each in 0..255 and at most the source channel; the
   other parameters of the SGR stay where they were. *)
ColourSgrIsDimmedTo24Bit ==
  ret.fn = "dimANSIColors" =>
    \A pre \in {<<>>, <<1>>}, form \in ColourForms, post \in {<<>>, <<4>>} :
       call.line = SgrLine(pre, form, post) =>
         LET src == FormRGB(form)
             f == call.factor
             ch == [i \in 1..3 |-> (src[i] * f.num) \div f.den]
         IN
         /\ ret.out = dimDefault
                        \o SgrLine(pre, <<FormLayer(form), 2>> \o ch, post)
         /\ \A i \in 1..3 : ch[i] \in 0..255 /\ ch[i] <= src[i]

(* dimANSIColors has returned for bold, a 256-colour background and
   underline in one SGR, at factor 0.4. *)
ColourSgrDimmed ==
  /\ ret.fn = "dimANSIColors"
  /\ call.line = SgrLine(<<1>>, <<48, 5, 110>>, <<4>>)
  /\ call.factor = TwoFifths

(***************************************************************************)
(* The SGRs of a line as applyHighlightToLine meets them: the sequence,    *)
(* the number of visible characters before it, and the colour state after  *)
(* it.                                                                     *)
(***************************************************************************)
RECURSIVE sgrsFrom(_, _, _, _)
sgrsFrom(line, i, visCol, state) ==
  IF i > Len(line) THEN <<>>
  ELSE IF line[i] # 27 THEN sgrsFrom(line, i + 1, visCol + 1, state)
  ELSE IF i + 1 > Len(line) THEN <<>>
  ELSE IF line[i + 1] = 93
    THEN sgrsFrom(line, oscEnd(line, i + 2), visCol, state)
  ELSE IF line[i + 1] # 91
    THEN sgrsFrom(line, nonCsiEnd(line, i + 1), visCol, state)
  ELSE
    LET pe == skipBytes(line, i + 2, 32, 63) IN
    IF pe > Len(line) THEN <<>>
    ELSE IF line[pe] # 109 THEN sgrsFrom(line, pe + 1, visCol, state)
    ELSE LET after == updateColorState(state, SubSeq(line, i + 2, pe - 1))
         IN <<[orig |-> SubSeq(line, i, pe), col |-> visCol,
               state |-> after]>>
              \o sgrsFrom(line, pe + 1, visCol, after)

SgrsOf(line) == sgrsFrom(line, 1, 0, ansiColorState)

Contains(str, sub) ==
  \E k \in 0..(Len(str) - Len(sub)) : SubSeq(str, k + 1, k + Len(sub)) = sub

(* The lightened pair for a colour state: each channel c becomes
   c + floor((255 - c) f), from (229,229,229) and (0,0,0) when unset. *)
LightenedPair(state, f) ==
  LET fg == IF state.fgSet THEN state.fg ELSE <<229, 229, 229>>
      bg == IF state.bgSet THEN state.bg ELSE <<0, 0, 0>>
      up(c) == c + ((255 - c) * f.num) \div f.den
  IN SGR(Params(<<38, 2, up(fg[1]), up(fg[2]), up(fg[3])>>))
       \o SGR(Params(<<48, 2, up(bg[1]), up(bg[2]), up(bg[3])>>))

(* C25: every SGR of the line that is met while the visible column is in
   startCol..endCol is in the output unchanged, followed at once by the
   lightened pair of the colour state after it. *)
SgrInRangeIsFollowedByLightened ==
  ret.fn = "applyHighlightToLine" =>
    LET sgrs == SgrsOf(call.line) IN
    \A k \in 1..Len(sgrs) :
       (sgrs[k].col >= call.startCol /\ sgrs[k].col <= call.endCol) =>
         Contains(ret.out,
                  sgrs[k].orig \o LightenedPair(sgrs[k].state, call.factor))

(* C25, amended: the same for every SGR met after the first highlighted
   character, startCol < column <= endCol; an SGR met at column startCol,
   before that character, is in the output unchanged. *)
SgrAfterFirstHighlightedIsFollowedByLightened ==
  ret.fn = "applyHighlightToLine" =>
    LET sgrs == SgrsOf(call.line) IN
    \A k \in 1..Len(sgrs) :
       /\ (sgrs[k].col > call.startCol /\ sgrs[k].col <= call.endCol) =>
            Contains(ret.out,
                     sgrs[k].orig
                       \o LightenedPair(sgrs[k].state, call.factor))
       /\ Contains(ret.out, sgrs[k].orig)

(* applyHighlightToLine has returned for a line whose colour changes
   between two highlighted letters. *)
SgrMetInsideHighlight ==
  /\ ret.fn = "applyHighlightToLine"
  /\ call.line = <<97>> \o SGR(Params(<<31>>)) \o <<97>>
  /\ call.startCol = 0
  /\ call.endCol = 1

(***************************************************************************)
(* renderOverlayOnTop with ansiEscapeEnd, truncateAnsi and skipAnsi.  The  *)
(* background and the overlay are the lines strings.Split gives, and the   *)
(* result is the lines that strings.Join puts together.                    *)
(* utf8.DecodeRuneInString: the size of the rune at i, 1 for a byte that   *)
(* starts no complete rune.                                                *)
(***************************************************************************)
IsCont(str, j) == j <= Len(str) /\ str[j] >= 128 /\ str[j] <= 191

runeSize(str, i) ==
  IF str[i] >= 194 /\ str[i] <= 223 /\ IsCont(str, i + 1) THEN 2
  ELSE IF str[i] >= 224 /\ str[i] <= 239 /\ IsCont(str, i + 1)
          /\ IsCont(str, i + 2) THEN 3
  ELSE IF str[i] >= 240 /\ str[i] <= 244 /\ IsCont(str, i + 1)
          /\ IsCont(str, i + 2) /\ IsCont(str, i + 3) THEN 4
  ELSE 1

RECURSIVE skipToLetter(_, _)
skipToLetter(str, j) ==
  IF j <= Len(str) /\ ~IsLetter(str[j]) THEN skipToLetter(str, j + 1) ELSE j

ansiEscapeEnd(str, i) ==
  LET j == i + 1 IN
  IF j > Len(str) THEN j
  ELSE IF str[j] = 91
    THEN LET k == skipToLetter(str, j + 1) IN
         IF k <= Len(str) THEN k + 1 ELSE k
  ELSE IF str[j] = 40 THEN Min(j + 2, Len(str) + 1)
  ELSE j

RECURSIVE truncateFrom(_, _, _, _)
truncateFrom(str, i, visCol, maxWidth) ==
  IF i > Len(str) \/ visCol >= maxWidth THEN <<>>
  ELSE IF str[i] = 27 /\ i + 1 <= Len(str)
    THEN LET j == ansiEscapeEnd(str, i) IN
         SubSeq(str, i, j - 1) \o truncateFrom(str, j, visCol, maxWidth)
  ELSE LET size == runeSize(str, i) IN
       SubSeq(str, i, i + size - 1)
         \o truncateFrom(str, i + size, visCol + 1, maxWidth)

truncateAnsi(str, maxWidth) == truncateFrom(str, 1, 0, maxWidth)

RECURSIVE skipFrom(_, _, _, _)
skipFrom(str, i, visCol, skip) ==
  IF i > Len(str) \/ visCol >= skip THEN SubSeq(str, i, Len(str))
  ELSE IF str[i] = 27 /\ i + 1 <= Len(str)
    THEN skipFrom(str, ansiEscapeEnd(str, i), visCol, skip)
  ELSE skipFrom(str, i + runeSize(str, i), visCol + 1, skip)

skipAnsi(str, skip) == skipFrom(str, 1, 0, skip)

(* lipgloss.Width of one line: the terminal cells of its runes, none for
   an escape sequence, two for a CJK ideograph (a three-byte rune with
   lead byte E4..E9). *)
IsWide(str, i) == runeSize(str, i) = 3 /\ str[i] >= 228 /\ str[i] <= 233

RECURSIVE cellsFrom(_, _)
cellsFrom(str, i) ==
  IF i > Len(str) THEN <<>>
  ELSE IF str[i] = 27 /\ i + 1 <= Len(str) /\ str[i + 1] = 91
    THEN LET k == skipBytes(str, i + 2, 32, 63) IN
         cellsFrom(str, IF k <= Len(str) THEN k + 1 ELSE k)
  ELSE IF str[i] = 27 /\ i + 1 <= Len(str) /\ str[i + 1] = 40
    THEN cellsFrom(str, Min(i + 3, Len(str) + 1))
  ELSE LET size == runeSize(str, i)
           rune == SubSeq(str, i, i + size - 1)
       IN (IF IsWide(str, i) THEN <<rune, <<>>>> ELSE <<rune>>)
            \o cellsFrom(str, i + size)

Cells(str) == cellsFrom(str, 1)
Width(str) == Len(Cells(str))

RECURSIVE MaxWidth(_)
MaxWidth(lines) ==
  IF lines = <<>> THEN 0 ELSE Max(Width(lines[1]), MaxWidth(Tail(lines)))

overlayStartCol(windowWidth, olWidth) ==
  Max(0, (windowWidth - olWidth) \div 2)
overlayStartRow(windowHeight, olLines) ==
  Max(0, (windowHeight - Len(olLines)) \div 2)

(* One row: the background to the left, padded, the overlay line, padded,
   and the background to the right. *)
overlayRow(bgLine, olLine, startCol, olWidth) ==
  LET leftBg == truncateAnsi(bgLine, startCol)
      leftWidth == Width(leftBg)
      olVisWidth == Width(olLine)
  IN leftBg
       \o (IF leftWidth < startCol THEN Spaces(startCol - leftWidth)
           ELSE <<>>)
       \o olLine
       \o (IF olVisWidth < olWidth THEN Spaces(olWidth - olVisWidth)
           ELSE <<>>)
       \o skipAnsi(bgLine, startCol + olWidth)

renderOverlayOnTop(bgLines, olLines, windowWidth, windowHeight) ==
  LET olWidth == MaxWidth(olLines)
      startRow == overlayStartRow(windowHeight, olLines)
      startCol == overlayStartCol(windowWidth, olWidth)
      padded == [r \in 1..Max(Len(bgLines), windowHeight) |->
                   IF r <= Len(bgLines) THEN bgLines[r] ELSE <<>>]
  IN [r \in 1..windowHeight |->
        IF r > startRow /\ r - startRow <= Len(olLines)
        THEN overlayRow(padded[r], olLines[r - startRow], startCol, olWidth)
        ELSE padded[r]]

(***************************************************************************)
(* SpecOverlay: one call of renderOverlayOnTop for a window of one or two  *)
(* rows.  Background lines hold letters, an SGR, and a line with two CJK   *)
(* ideographs; overlay lines hold letters and an SGR.                      *)
(***************************************************************************)
Red == SGR(Params(<<31>>))
Reset == SGR(Params(<<0>>))
Ideograph == <<228, 184, 150>>
BgLines ==
  {<<>>, <<97>>, <<97, 98, 99, 100, 101, 102, 103>>,
   <<97>> \o Red \o <<98, 99, 100>> \o Reset \o <<101, 102>>,
   Red \o <<97, 98>> \o Reset,
   Ideograph \o Ideograph \o <<97, 98, 99, 100>>,
   Ideograph \o Ideograph \o <<97>>}
OlLines == {<<88>>, <<88, 89>>, Red \o <<88, 89, 90>> \o Reset}
WindowWidths == {4, 6, 7, 9}
WindowHeights == {1, 2}

LinesUpTo(lines, n) == UNION {[1..k -> lines] : k \in 1..n}

OverlayCalls ==
  {[fn |-> "renderOverlayOnTop", background |-> bg, overlay |-> ol,
    windowWidth |-> w, windowHeight |-> h] :
     bg \in LinesUpTo(BgLines, MaxRows), ol \in LinesUpTo(OlLines, MaxRows),
     w \in WindowWidths, h \in WindowHeights}

CallRenderOverlayOnTop ==
  /\ call.fn = "renderOverlayOnTop"
  /\ ret = NoCall
  /\ ret' = [fn |-> "renderOverlayOnTop",
             lines |-> renderOverlayOnTop(call.background, call.overlay,
                                          call.windowWidth,
                                          call.windowHeight)]
  /\ UNCHANGED <<termVars, svcVars, tuiVars, sendKeysCalls, call>>

InitOverlay ==
  /\ InitTerm /\ ~muxExists /\ InitSvc /\ InitTui
  /\ call \in OverlayCalls
  /\ ret = NoCall

NextOverlay == CallRenderOverlayOnTop
SpecOverlay == InitOverlay /\ [][NextOverlay]_vars

Take(cells, n) == SubSeq(cells, 1, Min(n, Len(cells)))
Drop(cells, n) == SubSeq(cells, n + 1, Len(cells))
PadTo(cells, n) ==
  cells \o [i \in 1..(n - Len(cells)) |-> <<32>>]

(* The columns of a line: its terminal cells, or its runes when every
   rune counts as one column. *)
Columns(str, byCells) ==
  IF byCells THEN Cells(str) ELSE SelectSeq(Cells(str), LAMBDA x : x # <<>>)

OverlayRowsComposed(byCells) ==
  LET w == MaxWidth(call.overlay)
      c == Max(0, (call.windowWidth - w) \div 2)
      top == Max(0, (call.windowHeight - Len(call.overlay)) \div 2)
  IN \A k \in 1..Len(call.overlay) :
        top + k <= call.windowHeight =>
          LET B == IF top + k <= Len(call.background)
                   THEN Columns(call.background[top + k], byCells) ELSE <<>>
          IN Columns(ret.lines[top + k], byCells)
               = PadTo(Take(B, c), c)
                   \o PadTo(Columns(call.overlay[k], byCells), w)
                   \o Drop(B, c + w)

(* C28: in every row the overlay covers, with the overlay in columns
   c..c+w-1, the composed line shows the first c columns of the background
   line, padded with spaces when it is shorter, then the overlay line
   padded to w columns, then the background line without its first c + w
   columns; columns are terminal cells in every row, or runes in every
   row. *)
OverlayKeepsBackgroundOutside ==
  ret.fn = "renderOverlayOnTop" =>
    OverlayRowsComposed(TRUE) \/ OverlayRowsComposed(FALSE)

(***************************************************************************)
(* Claims about the ticker of pollLoop.                                    *)
(***************************************************************************)
(***************************************************************************)
(* SpecPoll: one handle over one pane, its caller asking IsRunning,        *)
(* Respawn, Render, Close and Detach (the calls that scroll or resize take *)
(* t.mu as Render does and touch neither lastCapture nor the ticker), with *)
(* the scheduling pollLoop relies on.  The poll goroutine is scheduled     *)
(* again and again, the ticker keeps firing, a                             *)
(* goroutine that waits for t.mu gets it (sync.Mutex hands the lock to a   *)
(* waiter that has starved), a caller that holds t.mu goes on to its       *)
(* unlock, and of the capture-pane commands run over an existing tmux      *)
(* session, some succeed.                                                  *)
(***************************************************************************)
PollCaptured == PollCapture /\ pollOutput' = screen
CallPoll ==
  \/ IsRunningLock \/ IsRunning \/ NoRespawn
  \/ RespawnCmd \/ RespawnLock \/ RespawnSet
  \/ RenderLock \/ Render
  \/ CloseLock \/ Close \/ DetachLock \/ Detach

NextPoll ==
  \/ MuxOutput \/ ChildExit
  \/ New \/ AttachStart \/ AttachCheck \/ AttachSet
  \/ PollStep
  \/ CallPoll

CallHoldingMu == (CallPoll \/ AttachSet) /\ mu = "caller"

FairPoll ==
  /\ WF_vars(PollStep)
  /\ SF_vars(PollLock1)
  /\ SF_vars(PollLock2)
  /\ SF_vars(PollCaptured)
  /\ WF_vars(CallHoldingMu)

SpecPoll == InitHandle /\ [][NextPoll]_vars /\ FairPoll

(* The tick is about to send TerminalOutputMsg. *)
OutputMsgPosted == pollPc = "sendOutput" /\ pollChanged

(* The pane shows what the handle has not captured, and the poll goroutine
   has not been told to stop. *)
PaneChanged ==
  /\ handle = "live" /\ doneCloses = 0 /\ muxExists
  /\ screen # lastCapture

(* C29: a tick sends TerminalOutputMsg if and only if its capture differs
   from the capture before it, so a tick over an unchanged capture sends
   none; and when the pane shows what the handle has not captured, then
   a TerminalOutputMsg is sent later, unless the pane goes back to the last
   capture first or the handle is closed or detached. *)
OutputChangedIffCaptureDiffers ==
  /\ [][(pollPc = "update" /\ pollPc' = "sendOutput")
          => (OutputMsgPosted' <=> lastCapture' # lastCapture)]_vars
  /\ (PaneChanged ~> (OutputMsgPosted \/ ~PaneChanged))

(* A tick has captured a pane that an earlier tick captured otherwise, and
   is about to send TerminalOutputMsg. *)
ChangedTickPosts ==
  /\ OutputMsgPosted /\ handle = "live"
  /\ lastCapture = "screenB" /\ cachedHistSize > 0

(* C30: the ticker's period is 50 ms while the pane's process is alive and
   500 ms once a tick has found it dead; when Respawn has succeeded and
   returned, the handle reporting IsRunning() = true and the poll goroutine
   waiting for its next tick, the period is 50 ms again. *)
PeriodFollowsChild ==
  (handle = "live" /\ callPc = "idle" /\ pollPc = "select")
    => /\ (childAlive /\ ~paneDead) => period = 50
       /\ period = 500 => (muxExists /\ deaths > 0)

(***************************************************************************)
(* SpecStop: Close and Detach called on one handle any number of times, by *)
(* the goroutine that holds it and by goroutines that still hold it after  *)
(* it was dropped from the map.  Both methods run under t.mu from their    *)
(* first statement to their return, so concurrent calls are the calls in   *)
(* the order they got the lock.  callArg is 1 in a call made on a handle   *)
(* that was stopped before.                                                *)
(***************************************************************************)
StopAgainLock(op) ==
  /\ handle = "released" /\ callPc = "idle" /\ mu = "free"
  /\ mu' = "caller"
  /\ callPc' = op
  /\ callArg' = 1
  /\ UNCHANGED notTerm
  /\ UNCHANGED <<muxVars, handle, fieldVars, pollPc, pollLocals, period,
                 obsVars>>

CloseAgainLock == StopAgainLock("Close")
DetachAgainLock == StopAgainLock("Detach")

NextStop ==
  \/ MuxOutput \/ ChildExit
  \/ New \/ AttachStart \/ AttachCheck \/ AttachSet
  \/ PollStep
  \/ CloseLock \/ Close \/ DetachLock \/ Detach
  \/ CloseAgainLock \/ DetachAgainLock

SpecStop == InitHandle /\ [][NextStop]_vars

(* C40: however many times Close and Detach are called on a handle, and in
   whatever order, t.done is closed once and never a second time, and
   kill-session is run at most once. *)
DoneClosedOnce ==
  /\ doneCloses <= 1
  /\ killCalls <= 1
  /\ handle = "released" => doneCloses = 1

(* A Close or Detach called on a handle that had been stopped before has
   returned. *)
StoppedTwice ==
  /\ handle = "released" /\ callPc = "idle" /\ callArg = 1
  /\ mu = "free" /\ closed

(***************************************************************************)
(* SpecActivate: the program over the sessions of an earlier run, with up  *)
(* to MaxCmds commands in flight, and ensureTerminal                       *)
(* statement by statement: each activation command is a goroutine of its   *)
(* own that reads and writes m.terminals.  The user moves the cursor and   *)
(* presses Enter in the sidebar.                                           *)
(***************************************************************************)
StartCmd(mm, started) ==
  /\ ~quit
  /\ Cardinality(cmds \cup started) <= MaxCmds
  /\ m' = mm
  /\ cmds' = cmds \cup started
  /\ UNCHANGED <<tmuxSessions, inbox, quit, svcVars, notTui>>

(* handleEnter with the cursor on a session. *)
EnterOnSession ==
  /\ InSidebar
  /\ cursorSession(m) # NoName
  /\ StartCmd(m, {activateSession(cursorSession(m), TRUE)})

(* "up"/"k" and "down"/"j": switchViewToCurrentSession. *)
CursorUp ==
  /\ InSidebar
  /\ m.cursor > 0
  /\ LET moved == [m EXCEPT !.cursor = @ - 1]
     IN StartCmd(switchViewModel(moved), switchViewCmd(moved))

CursorDown ==
  /\ InSidebar
  /\ m.cursor < maxIdx(m.sessions)
  /\ LET moved == [m EXCEPT !.cursor = @ + 1]
     IN StartCmd(switchViewModel(moved), switchViewCmd(moved))

(* ensureTerminal: a handle that is in the map and running is resized;
   otherwise detachTerminal. *)
EnsureCheck ==
  \E c \in cmds :
     /\ ~quit
     /\ c.kind = "activate" /\ c.pc = "ensure"
     /\ IF m.terminals[c.name] # "none" /\ IsRunningOf(c.name)
        THEN /\ Goto(c, "touch")
             /\ UNCHANGED m
        ELSE /\ Goto(c, "exists")
             /\ m' = detachTerminal(m, c.name)
     /\ UNCHANGED <<tmuxSessions, inbox, quit, svcVars, notTui>>

(* terminal.SessionExists *)
EnsureExists ==
  \E c \in cmds :
     /\ ~quit
     /\ c.kind = "activate" /\ c.pc = "exists"
     /\ Goto(c, IF tmuxSessions[c.name] # "none" THEN "attach" ELSE "new")
     /\ UNCHANGED <<m, tmuxSessions, inbox, quit, svcVars, notTui>>

(* terminal.Attach: newTerminal starts the handle's pollLoop. *)
EnsureAttach ==
  \E c \in cmds :
     /\ ~quit
     /\ c.kind = "activate" /\ c.pc = "attach"
     /\ Goto(c, "storeAttached")
     /\ UNCHANGED <<m, tmuxSessions, inbox, quit, svcVars, notTui>>

(* terminal.New: new-session fails when tmux has a session of the name,
   and then no handle is made. *)
EnsureNew ==
  \E c \in cmds, ok \in BOOLEAN :
     /\ ~quit
     /\ c.kind = "activate" /\ c.pc = "new"
     /\ IF ok /\ tmuxSessions[c.name] = "none"
        THEN /\ tmuxSessions' = [tmuxSessions EXCEPT ![c.name] = "alive"]
             /\ Goto(c, "storeNew")
             /\ UNCHANGED inbox
        ELSE /\ Return(c, Err)
             /\ UNCHANGED tmuxSessions
     /\ UNCHANGED <<m, quit, svcVars, notTui>>

(* m.terminals[sess.Name] = t: a handle the map held under the name is
   no longer in it, and nothing stops its pollLoop.  After Attach, a dead
   pane is respawned. *)
EnsureStore ==
  \E c \in cmds, ok \in BOOLEAN :
     LET name == c.name
         respawn == c.pc = "storeAttached" /\ tmuxSessions[name] = "dead"
     IN
     /\ ~quit
     /\ c.kind = "activate" /\ c.pc \in {"storeAttached", "storeNew"}
     /\ m' = [m EXCEPT !.terminals[name] = "polling"]
     /\ strayPolls' =
           IF m.terminals[name] = "polling"
           THEN [strayPolls EXCEPT ![name] = Min(@ + 1, 2)]
           ELSE strayPolls
     /\ IF respawn /\ ~ok
        THEN /\ Return(c, Err)
             /\ UNCHANGED tmuxSessions
        ELSE /\ Goto(c, "touch")
             /\ tmuxSessions' =
                   IF respawn THEN [tmuxSessions EXCEPT ![name] = "alive"]
                   ELSE tmuxSessions
             /\ UNCHANGED inbox
     /\ UNCHANGED <<quit, svcVars, inputVars>>
     /\ UNCHANGED <<muxVars, handle, mu, fieldVars, pollPc, pollLocals,
                    period, callPc, callArg, exitedFor, attached, killCalls, sel, mouse>>

NextActivate ==
  \/ loadSessions \/ sessionsLoadedMsg \/ errMsg
  \/ EnterOnSession \/ CursorUp \/ CursorDown
  \/ ActSetActive
  \/ EnsureCheck \/ EnsureExists \/ EnsureAttach \/ EnsureNew \/ EnsureStore
  \/ ActTouch \/ ActClear
  \/ PaneExits

SpecActivate == InitProgram /\ [][NextActivate]_vars

(* C31: for every session name, the only handle whose pollLoop runs is the
   one the map m.terminals holds under the name (or one that an
   ensureTerminal has made and is about to store): no handle is left
   polling outside the map. *)
OnePollingHandlePerSession == \A n \in Names : strayPolls[n] = 0

(***************************************************************************)
(* Claims about the create overlay.                                        *)
(***************************************************************************)
(* C32: Enter in the create overlay starts no command; it leaves the
   overlay open, or moves to the base-branch overlay, and it moves there
   only with a name that the grammar accepts and that no session has. *)
RejectedNameKeepsCreateOverlay ==
  [][(m.overlay = "createSession" /\ CreateEnter)
       => /\ cmds' = cmds
          /\ m'.overlay \in {"createSession", "selectBaseBranch"}
          /\ m'.overlay = "selectBaseBranch"
               => /\ ValidateBranchName(m'.pendingSessionName)
                  /\ ~HasRow(m'.pendingSessionName)]_vars

(* C33: the marker m.activatingSession names a session only while an
   activation command of that session is running: when the command has
   finished, with or without an error, the marker is empty, and
   switchViewToCurrentSession activates the session again when it has no
   handle. *)
MarkerOnlyWhileActivating ==
  m.activatingSession # NoName
    => \E c \in cmds : c.kind = "activate" /\ c.name = m.activatingSession

(***************************************************************************)
(* SpecDelete: the program with every stored session activated: each has   *)
(* its handle in the map and its agent running in its tmux session.  The   *)
(* user moves the cursor, presses Enter, and deletes sessions.             *)
(***************************************************************************)
InitDelete ==
  /\ InitTerm /\ ~muxExists
  /\ rows = {StoredRow(n, "active") : n \in Names}
  /\ worktrees = Names
  /\ branches = Names
  /\ tmuxSessions = [n \in Names |-> "alive"]
  /\ nextId = Cardinality(Names) + 1
  /\ touchSnap = NoRow
  /\ lastCreate = NoCreate
  /\ m = [NewModel EXCEPT !.sessions = ListSessions,
                          !.activeSession = ListSessions[1].name,
                          !.terminals = [n \in Names |-> "polling"]]
  /\ cmds = {}
  /\ inbox = {}
  /\ quit = FALSE
  /\ sendKeysCalls = 0
  /\ NoCalls

NextDelete ==
  \/ SidebarUp \/ SidebarDown \/ handleEnter
  \/ openDeleteOverlay \/ DeleteYes \/ DeleteNo
  \/ sessionsLoadedMsg \/ sessionDeletedMsg \/ errMsg
  \/ loadSessions \/ deleteCmd
  \/ ActSetActive \/ ActEnsure \/ ActTouch \/ ActClear
  \/ PaneExits

SpecDelete == InitDelete /\ [][NextDelete]_vars

(* C34: a session whose row is in the table and whose deletion is not
   under way (none was confirmed, or the one confirmed has failed) has its
   handle in the map and its tmux session on the socket, as before the
   deletion was confirmed. *)
FailedDeleteKeepsAgent ==
  \A n \in Names :
     (HasRow(n) /\ ~\E c \in cmds : c.kind = "delete" /\ c.name = n)
       => (m.terminals[n] = "polling" /\ tmuxSessions[n] # "none")

(***************************************************************************)
(* SpecCreating: the first run in a repository, with up to MaxCmds         *)
(* commands in flight: the user goes through the create overlays while     *)
(* loadSessions, the first command, may still be running.  The user        *)
(* creates sessions as long as the table has none.                         *)
(***************************************************************************)
(* Enter on a base branch: doCreateSession(baseBranch, false). *)
SelectBaseEnterBusy ==
  /\ m.overlay = "selectBaseBranch"
  /\ rows = {}
  /\ StartCmd([m EXCEPT !.overlay = "creating"],
              {Cmd("create", m.pendingSessionName, FALSE, "run")})

NextCreating ==
  \/ openCreateOverlay \/ CreateEsc \/ CreateEnter
  \/ SelectBaseEsc \/ SelectBaseEnterBusy
  \/ sessionsLoadedMsg \/ sessionCreatedMsg \/ errMsg
  \/ loadSessions \/ createCmd
  \/ ActSetActive \/ ActEnsure \/ ActTouch \/ ActClear

SpecCreating == InitService /\ [][NextCreating]_vars

(* C35: while the create command that opened the creating overlay has not
   returned its result, the creating overlay is shown: neither a key nor
   the error of another command closes it. *)
CreatingOverlayStaysUntilResult ==
  (\E c \in cmds : c.kind = "create") => m.overlay = "creating"

(***************************************************************************)
(* SpecPane: the terminal pane of the active session.  The session's       *)
(* handle is in the map and has scrollback; the user types with the focus  *)
(* on the terminal, scrolls, drags the mouse and resizes the window.       *)
(***************************************************************************)
MaxPaneHist == 4
PaneWidths == {sidebarWidth + 4, sidebarWidth + 13}
PaneHeights == {MinTermHeight - 1, MinTermHeight + 1}
MouseXs == {0, sidebarWidth + 1, sidebarWidth + 12}
MouseYs == {0, MinTermHeight}
PaneHists == {0, MaxPaneHist}
PaneKeys == {"ctrl+c", "pgup", "pgdown", "enter", "x"}

(* What the steps of the pane leave alone. *)
paneOther == <<muxVars, handle, mu, closed, doneCloses, lastCapture,
               paneDead, pollPc, pollLocals, period, callPc, callArg,
               exitedFor, attached, killCalls, strayPolls, svcVars, cmds,
               inbox, quit, call, ret>>
paneRest == <<cachedHistSize, paneOther>>

hasHandle == m.activeSession # NoName /\ m.terminals[m.activeSession] # "none"

(* tea.WindowSizeMsg: the Model takes the size and resizes the active
   session's handle. *)
WindowSizeMsg ==
  \E w \in PaneWidths, h \in PaneHeights :
     /\ ~quit
     /\ sel' = [sel EXCEPT !.windowWidth = w, !.windowHeight = h]
     /\ visHeight' = IF hasHandle THEN termHeight(sel') ELSE visHeight
     /\ UNCHANGED <<m, tmuxSessions, scrollLines, sendKeysCalls, mouse,
                    paneRest>>

(* pollLoop stores the history size it read from the pane of the active
   session's handle. *)
PanePoll ==
  \E h \in PaneHists :
     /\ ~quit /\ hasHandle
     /\ h # cachedHistSize
     /\ cachedHistSize' = h
     /\ UNCHANGED <<m, tmuxSessions, sel, visHeight, scrollLines,
                    sendKeysCalls, mouse, paneOther>>

(* Terminal.ExitScrollMode, and what leaving it out would do. *)
StayInScrollMode(lines) == lines
ExitScrollMode(lines) == lines - lines

(* handleKeyMsg with no overlay open and the focus on the terminal: the
   selection is cleared, Ctrl+C gives the focus to the sidebar, and every
   other key goes to handleTerminalKeys. *)
handleTerminalKeys(key) ==
  IF ~hasHandle THEN UNCHANGED <<tmuxSessions, scrollLines, sendKeysCalls>>
  ELSE IF ~IsRunningOf(m.activeSession)
  THEN /\ \E ok \in BOOLEAN :
            tmuxSessions' =
               IF key = "enter" /\ ok
               THEN [tmuxSessions EXCEPT ![m.activeSession] = "alive"]
               ELSE tmuxSessions
       /\ UNCHANGED <<scrollLines, sendKeysCalls>>
  ELSE IF key = "pgup"
  THEN /\ scrollLines' = Min(scrollLines + termHeight(sel) \div 2,
                             cachedHistSize)
       /\ UNCHANGED <<tmuxSessions, sendKeysCalls>>
  ELSE IF key = "pgdown"
  THEN /\ scrollLines' = Max(scrollLines - termHeight(sel) \div 2, 0)
       /\ UNCHANGED <<tmuxSessions, sendKeysCalls>>
  ELSE IF scrollLines > 0
  THEN /\ scrollLines' = ExitScrollMode(scrollLines)
       /\ UNCHANGED <<tmuxSessions, sendKeysCalls>>
  ELSE /\ sendKeysCalls' = (sendKeysCalls + 1) % 2
       /\ UNCHANGED <<tmuxSessions, scrollLines>>

handleKeyMsg(key) ==
  /\ ~quit
  /\ m.overlay = "none" /\ m.focus = "terminal"
  /\ sel' = [sel EXCEPT !.hasSelection = FALSE, !.selecting = FALSE]
  /\ IF key = "ctrl+c"
     THEN /\ m' = [m EXCEPT !.focus = "sidebar"]
          /\ UNCHANGED <<tmuxSessions, scrollLines, sendKeysCalls>>
     ELSE /\ handleTerminalKeys(key)
          /\ UNCHANGED m
  /\ UNCHANGED <<visHeight, mouse, paneRest>>

TerminalKey == \E key \in PaneKeys : handleKeyMsg(key)

(* handleMouseMsg.  The column of a mouse position is counted from the
   pane's first column, the row is the event's Y plus one. *)
termStartX == sidebarWidth + 1
InWindow(x, y) == x < sel.windowWidth /\ y < sel.windowHeight
clampCol(x) == Min(Max(x - termStartX, 0), termWidth(sel) - 1)
clampRow(y) == Min(Max(y + 1, 0), termHeight(sel) - 1)

MousePress(x, y) ==
  /\ ~quit /\ m.overlay = "none"
  /\ InWindow(x, y)
  /\ IF x >= termStartX /\ m.activeSession # NoName
     THEN /\ sel' = [sel EXCEPT !.selecting = TRUE,
                                !.selStartCol = Min(x - termStartX,
                                                    termWidth(sel) - 1),
                                !.selStartRow = y + 1,
                                !.selEndCol = Min(x - termStartX,
                                                  termWidth(sel) - 1),
                                !.selEndRow = y + 1,
                                !.hasSelection = FALSE]
          /\ m' = [m EXCEPT !.focus = "terminal"]
     ELSE /\ sel' = [sel EXCEPT !.hasSelection = FALSE, !.selecting = FALSE]
          /\ UNCHANGED m
  /\ mouse' = [mouse EXCEPT !.pressX = x, !.pressY = y]
  /\ UNCHANGED <<tmuxSessions, visHeight, scrollLines, sendKeysCalls,
                 paneRest>>

MouseMotion(x, y) ==
  /\ ~quit /\ m.overlay = "none"
  /\ InWindow(x, y)
  /\ sel' = IF sel.selecting
            THEN [sel EXCEPT !.selEndCol = clampCol(x),
                             !.selEndRow = clampRow(y),
                             !.hasSelection = TRUE]
            ELSE sel
  /\ UNCHANGED <<m, tmuxSessions, visHeight, scrollLines, sendKeysCalls,
                 mouse, paneRest>>

(* The release finalizes the selection, and copies it to the clipboard,
   when its end is not its start. *)
moved(x, y) ==
  sel.selStartRow # clampRow(y) \/ sel.selStartCol # clampCol(x)

MouseRelease(x, y) ==
  /\ ~quit /\ m.overlay = "none"
  /\ InWindow(x, y)
  /\ IF sel.selecting
     THEN /\ sel' = [sel EXCEPT !.selecting = FALSE,
                                !.selEndCol = clampCol(x),
                                !.selEndRow = clampRow(y),
                                !.hasSelection = moved(x, y)]
          /\ mouse' = IF moved(x, y)
                      THEN [mouse EXCEPT !.copies = (@ + 1) % 2]
                      ELSE mouse
     ELSE UNCHANGED <<sel, mouse>>
  /\ UNCHANGED <<m, tmuxSessions, visHeight, scrollLines, sendKeysCalls,
                 paneRest>>

(* The wheel scrolls the running handle by three lines when the focus is
   on the terminal. *)
MouseWheel(up) ==
  /\ ~quit /\ m.overlay = "none"
  /\ IF m.focus = "terminal" /\ hasHandle /\ IsRunningOf(m.activeSession)
     THEN /\ sel' = [sel EXCEPT !.hasSelection = FALSE]
          /\ scrollLines' =
                IF up THEN Min(scrollLines + WheelLines, cachedHistSize)
                ELSE Max(scrollLines - WheelLines, 0)
     ELSE UNCHANGED <<sel, scrollLines>>
  /\ UNCHANGED <<m, tmuxSessions, visHeight, sendKeysCalls, mouse, paneRest>>

MousePressed == \E x \in MouseXs, y \in MouseYs : MousePress(x, y)
MouseMoved == \E x \in MouseXs, y \in MouseYs : MouseMotion(x, y)
MouseReleased == \E x \in MouseXs, y \in MouseYs : MouseRelease(x, y)
MouseWheeled == \E up \in BOOLEAN : MouseWheel(up)

InitPane ==
  /\ InitTerm /\ ~muxExists
  /\ rows = {StoredRow(n, "active") : n \in Names}
  /\ worktrees = Names
  /\ branches = Names
  /\ nextId = Cardinality(Names) + 1
  /\ touchSnap = NoRow
  /\ lastCreate = NoCreate
  /\ m = [NewModel EXCEPT !.sessions = ListSessions,
                          !.activeSession = ListSessions[1].name,
                          !.terminals[ListSessions[1].name] = "polling"]
  /\ tmuxSessions = [n \in Names |-> IF n = ListSessions[1].name
                                     THEN "alive" ELSE "none"]
  /\ cmds = {}
  /\ inbox = {}
  /\ quit = FALSE
  /\ sendKeysCalls = 0
  /\ NoCalls

NextPane ==
  \/ WindowSizeMsg \/ TerminalKey
  \/ MousePressed \/ MouseMoved \/ MouseReleased \/ MouseWheeled
  \/ PanePoll \/ PaneExits

SpecPane == InitPane /\ [][NextPane]_vars

(* A key pressed with the focus on the terminal while the active session's
   handle is in scroll mode and its pane's process runs. *)
ScrollModeKey(key) ==
  /\ scrollLines > 0
  /\ hasHandle /\ IsRunningOf(m.activeSession)
  /\ handleKeyMsg(key)

LeftScrollMode == scrollLines' = 0 /\ sendKeysCalls' = sendKeysCalls

(* C36, as stated: while the active handle is in scroll mode and its child
   is alive, whatever key comes next with the focus on the terminal exits
   scroll mode: the offset becomes 0 and the key is not forwarded. *)
AnyKeyExitsScrollMode ==
  [][\A key \in PaneKeys : ScrollModeKey(key) => LeftScrollMode]_vars

(* C36: while the active handle is in scroll mode and its child is alive,
   the next key with the focus on the terminal that is not PgUp, PgDown or
   Ctrl+C exits scroll mode: the offset becomes 0 and the key is not
   forwarded. *)
OtherKeyExitsScrollMode ==
  [][\A key \in PaneKeys \ {"pgup", "pgdown", "ctrl+c"} :
        ScrollModeKey(key) => LeftScrollMode]_vars

(* The handle is in scroll mode with the focus on the terminal after the
   user has typed into it: the next key is the one C36 is about. *)
TypedThenScrolled ==
  /\ scrollLines > 0 /\ sendKeysCalls = 1
  /\ m.overlay = "none" /\ m.focus = "terminal"
  /\ hasHandle /\ IsRunningOf(m.activeSession)

(* C37: the release that ends a drag started in the terminal pane leaves
   selecting false and hasSelection true exactly when the selection's end
   is not its start; a release where the press fell leaves no selection;
   the clipboard copy is attempted exactly when the release finalized a
   selection. *)
ReleaseFinalizesMovedSelection ==
  [][\A x \in MouseXs, y \in MouseYs :
        (sel.selecting /\ MouseRelease(x, y))
        => /\ ~sel'.selecting
           /\ sel'.hasSelection
                <=> <<sel'.selEndCol, sel'.selEndRow>>
                      # <<sel'.selStartCol, sel'.selStartRow>>
           /\ <<x, y>> = <<mouse.pressX, mouse.pressY>>
                => ~sel'.hasSelection
           /\ mouse'.copies # mouse.copies <=> sel'.hasSelection]_vars

(* C38: in every state the selection's start and end are coordinates of
   the terminal pane: rows 0 .. height - 1, columns 0 .. width - 1. *)
SelectionInPane ==
  /\ sel.selStartRow \in 0..(termHeight(sel) - 1)
  /\ sel.selEndRow \in 0..(termHeight(sel) - 1)
  /\ sel.selStartCol \in 0..(termWidth(sel) - 1)
  /\ sel.selEndCol \in 0..(termWidth(sel) - 1)

(* C39: whatever keys and sessionsLoaded, sessionCreated, sessionDeleted and
   sessionArchived messages the reducer has handled, the sidebar cursor is
   at least 0 and at most max(0, A - 1 + (1 if a session is archived, else
   0)), A being the number of the Model's sessions that are not archived. *)
CursorInSidebar ==
  /\ m.cursor >= 0
  /\ m.cursor <= Max(0, Len(activeSessions(m.sessions)) - 1
                          + (IF archivedCount(m.sessions) > 0 THEN 1 ELSE 0))

(* The cursor is on the "archived" line, below the sessions that are not
   archived: the largest value the bound allows. *)
CursorOnLastLine ==
  /\ archivedCount(m.sessions) > 0
  /\ m.cursor = Len(activeSessions(m.sessions))
  /\ m.cursor > 0

====
